---- MODULE Spec2Model ----
(***************************************************************************)
(* Job orchestration and alert evaluation pipeline of the product monitor. *)
(*                                                                         *)
(* The module models three parts of the repository:                        *)
(*   - the report jobs: ReportService.create_competitor_report, the        *)
(*     report_jobs / report_results tables and the Celery task             *)
(*     generate_competitor_report (SpecSubmit, SpecWorker);                *)
(*   - the identifier pipeline: the asin_status table, the scheduler, the  *)
(*     fetch task and the webhook ingestion (SpecIngest);                  *)
(*   - the alert rule evaluator, a function of two snapshots and a rule    *)
(*     list (SpecEval).                                                    *)
(* Each specification moves the variables of its part and leaves the       *)
(* others as they start.                                                   *)
(*                                                                         *)
(* Time is the server clock in whole seconds.  Storage calls that can      *)
(* raise are given their outcome as an input of the action that makes      *)
(* them.  SHA-256 is taken to be injective: a hash is the canonical JSON   *)
(* text it is computed from.                                               *)
(***************************************************************************)
EXTENDS Integers, Sequences, FiniteSets, TLC

VARIABLES
    now,             \* datetime.now() of the server, in seconds
    report_jobs,     \* table report_jobs: job id (1..n) -> row
    report_results,  \* table report_results: the job ids that have a result row
    report_tasks,    \* the generate_competitor_report task messages, by task number
    lastSubmit,      \* the response of create_competitor_report, until the next step
    hasRetryDelay,   \* whether the task runtime offers Task.get_retry_delay
    asin_status,     \* table asin_status: asin -> row
    fetch_tasks,     \* the fetch_amazon_products messages in the queue, by their asin list
    runs,            \* the provider runs started and not reported yet, by their asin list
    products,        \* table products: the asins that have a row
    product_snapshots,  \* table product_snapshots: the rows
    alert_records,   \* table of alert records: the rows
    lastSelect,      \* what the scheduler selected, until the next step
    lastWebhook,     \* what the webhook handler did, until the next step
    lastUpdate,      \* what the last status update, alone or of a fetch task, did, until the next step
    eval             \* one call of the alert evaluator: its arguments and its result

reportVars == <<report_jobs, report_results, report_tasks, lastSubmit, hasRetryDelay>>
ingestVars == <<asin_status, fetch_tasks, runs, products, product_snapshots,
                alert_records, lastSelect, lastWebhook, lastUpdate>>
evalVars == <<eval>>
vars == <<now, reportVars, ingestVars, evalVars>>

-----------------------------------------------------------------------------
(* Bounds of the model *)

MaxDay == 1
MaxJobs == 2
MaxWorkerJobs == 1
MaxRuns == 1
MaxRetryCount == 3
MaxLimit == 2

(* Program constants *)

SecondsPerDay == 86400
LastSecondOfDay == 86399
max_retries == 3
fetch_max_retries == 3
FiveMinutes == 300
RetryLimit == 3

-----------------------------------------------------------------------------
(* Clock *)

\* the instants at which the modelled clock can stand: the given seconds of each day
Instants(slots) == {d * SecondsPerDay + s : d \in 0..MaxDay, s \in slots}

\* for the report jobs: midnight and the last second of a day
ReportSlots == {0, LastSecondOfDay}

\* for the identifier pipeline: midnight of each day and, on the first day, five
\* minutes later and one second more
IngestInstants ==
    {d * SecondsPerDay : d \in 0..MaxDay} \cup {FiveMinutes, FiveMinutes + 1}

\* datetime.date() of a timestamp
DateOf(t) == t \div SecondsPerDay

\* SQL NULL / None of a numeric column; the numbers of the model are not negative
Null == 0 - 1

-----------------------------------------------------------------------------
(* Report jobs: shared/database/report_queries.py *)

SortedKeys == <<"competitor_asins", "main_asin", "report_type", "window_size">>

\* json.dumps(parameters, sort_keys=True): the members in key order
json_dumps_sorted(parameters) ==
    [i \in 1..Len(SortedKeys) |-> <<SortedKeys[i], parameters[SortedKeys[i]]>>]

generate_parameters_hash(parameters) == json_dumps_sorted(parameters)

NoError == [kind |-> "none", attempt |-> 0, exc |-> "none"]

\* the row create_report_job inserts (started_at, completed_at and result_url are
\* written but never read by the code modelled here and are left out);
\* seen_completed records, for the analysis only, the completed jobs that the
\* idempotency lookup of the creating call could see (none when the lookup raised)
NewJobRow_Failed(parameters_hash, t, seen) ==
    [parameters_hash |-> parameters_hash,
     status |-> "failed",
     created_at |-> t,
     error_message |-> NoError,
     seen_completed |-> seen]

NewJobRow(parameters_hash, t, seen) ==
    [parameters_hash |-> parameters_hash,
     status |-> "pending",
     created_at |-> t,
     error_message |-> NoError,
     seen_completed |-> seen]

create_report_job(jobs, parameters_hash, t, seen) ==
    Append(jobs, NewJobRow(parameters_hash, t, seen))

update_report_job_status(jobs, job_id, status, error_message, t) ==
    IF job_id \in DOMAIN jobs
    THEN [jobs EXCEPT ![job_id] =
            [@ EXCEPT !.status = status,
                      !.error_message =
                          IF error_message # NoError THEN error_message ELSE @]]
    ELSE jobs

\* check_existing_report with a buggy status filter
check_existing_report_WrongStatus(jobs, parameters_hash, date) ==
    {j \in DOMAIN jobs :
        /\ jobs[j].parameters_hash = parameters_hash
        /\ jobs[j].status = "running"
        /\ jobs[j].created_at >= date * SecondsPerDay
        /\ jobs[j].created_at < date * SecondsPerDay + LastSecondOfDay}

\* the rows the query of check_existing_report selects
check_existing_report(jobs, parameters_hash, date) ==
    {j \in DOMAIN jobs :
        /\ jobs[j].parameters_hash = parameters_hash
        /\ jobs[j].status = "completed"
        /\ jobs[j].created_at >= date * SecondsPerDay
        /\ jobs[j].created_at < date * SecondsPerDay + LastSecondOfDay}

\* save_report_result: one more row of report_results for the job; the rows of one
\* job are told apart by nothing the code reads, the table is the set of their job ids
save_report_result_Lost(results, job_id) == results

save_report_result(results, job_id) == results \cup {job_id}

\* get_report_job_status, the status of the row or "unknown"
get_report_job_status(jobs, job_id) ==
    IF job_id \in DOMAIN jobs THEN jobs[job_id].status ELSE "unknown"

CompletedJobs(jobs) == {j \in DOMAIN jobs : jobs[j].status = "completed"}

-----------------------------------------------------------------------------
(* Report submission: apps/api_service/services/report_service.py *)

\* request.get(key, default) on a JSON object given as a sequence of members
HasKey(request, key) == \E i \in 1..Len(request) : request[i][1] = key

Get(request, key, default) ==
    IF HasKey(request, key)
    THEN request[CHOOSE i \in 1..Len(request) : request[i][1] = key][2]
    ELSE default

AsinsB == <<"B">>
AsinsC == <<"C">>

\* request bodies: the same parameters in two key orders (one spelling out the
\* defaults), other parameters, and two invalid requests
Requests ==
    { << <<"main_asin", "A">>, <<"competitor_asins", AsinsB>> >>,
      << <<"window_size", "7">>, <<"competitor_asins", AsinsB>>,
         <<"report_type", "competitor_analysis">>, <<"main_asin", "A">> >>,
      << <<"competitor_asins", AsinsC>>, <<"main_asin", "A">> >>,
      << <<"competitor_asins", AsinsB>> >>,
      << <<"main_asin", "A">>, <<"competitor_asins", <<>> >> >> }

ParametersOf(request) ==
    [main_asin |-> Get(request, "main_asin", ""),
     competitor_asins |-> Get(request, "competitor_asins", <<>>),
     window_size |-> Get(request, "window_size", "7"),
     report_type |-> Get(request, "report_type", "competitor_analysis")]

\* the response of create_competitor_report, with the hash the call computed
NoSubmit ==
    [kind |-> "none", job_id |-> 0, status |-> "none", existing |-> FALSE,
     warning |-> FALSE, hash |-> <<>>, lookup_raised |-> FALSE]

NewTask(job_id) == [job_id |-> job_id, retries |-> 0, pc |-> "queued", exc |-> "none"]

\* ReportService.create_competitor_report
create_competitor_report(request, maxJobs, lookupRaises, createRaises, enqueueRaises) ==
    LET parameters == ParametersOf(request)
        parameters_hash == generate_parameters_hash(parameters)
        today == DateOf(now)
        found == IF lookupRaises THEN {}
                 ELSE check_existing_report(report_jobs, parameters_hash, today)
        resp == [NoSubmit EXCEPT !.hash = parameters_hash,
                                 !.lookup_raised = lookupRaises]
    IN
    IF parameters.main_asin = "" \/ parameters.competitor_asins = <<>>
    THEN /\ lastSubmit' = [NoSubmit EXCEPT !.kind = "invalid", !.status = "failed"]
         /\ UNCHANGED <<report_jobs, report_tasks>>
    ELSE IF found # {}
    THEN /\ \E j \in found :
              lastSubmit' = [resp EXCEPT !.kind = "existing", !.job_id = j,
                                         !.status = report_jobs[j].status,
                                         !.existing = TRUE]
         /\ UNCHANGED <<report_jobs, report_tasks>>
    ELSE IF createRaises
    THEN /\ lastSubmit' = [resp EXCEPT !.kind = "error", !.status = "failed"]
         /\ UNCHANGED <<report_jobs, report_tasks>>
    ELSE /\ Len(report_jobs) < maxJobs
         /\ report_jobs' = create_report_job(
                               report_jobs, parameters_hash, now,
                               IF lookupRaises THEN {} ELSE CompletedJobs(report_jobs))
         /\ report_tasks' = IF enqueueRaises THEN report_tasks
                            ELSE Append(report_tasks, NewTask(Len(report_jobs) + 1))
         /\ lastSubmit' = [resp EXCEPT !.kind = "created",
                                       !.job_id = Len(report_jobs) + 1,
                                       !.status = "pending",
                                       !.warning = enqueueRaises]

Submit(maxJobs) ==
    /\ \E request \in Requests, lookupRaises, createRaises, enqueueRaises \in BOOLEAN :
           create_competitor_report(request, maxJobs, lookupRaises, createRaises,
                                    enqueueRaises)
    /\ UNCHANGED <<now, report_results, hasRetryDelay, ingestVars, evalVars>>

\* CompetitorReportRequest: the validation of the body of POST /competitors
MaxCompetitors == 10
AsinLength == 10

\* validate_competitor_asins without its size bound
validate_competitor_asins_NoBound(request) ==
    /\ HasKey(request, "competitor_asins")
    /\ Get(request, "competitor_asins", <<>>) # <<>>

validate_competitor_asins(request) ==
    /\ HasKey(request, "competitor_asins")
    /\ Get(request, "competitor_asins", <<>>) # <<>>
    /\ Len(Get(request, "competitor_asins", <<>>)) <= MaxCompetitors

validate_main_asin(request) ==
    /\ HasKey(request, "main_asin")
    /\ Len(Get(request, "main_asin", "")) = AsinLength

CompetitorReportRequest(request) ==
    validate_main_asin(request) /\ validate_competitor_asins(request)

\* n comparison identifiers
Competitors(n) == [i \in 1..n |-> "C"]

\* the bodies posted: with a main_asin that is missing, empty, one character short
\* or well-formed, and a comparison list that is missing, empty, or of 1, 10 or 11
\* identifiers
PostRequests ==
    { main \o list :
        main \in { <<>> } \cup
                 { << <<"main_asin", m>> >> : m \in {"", "B01LP0U5X", "B01LP0U5X0"} },
        list \in { <<>> } \cup
                 { << <<"competitor_asins", Competitors(n)>> >> :
                       n \in {0, 1, MaxCompetitors, MaxCompetitors + 1} } }

\* POST /competitors: a body the request model rejects is answered by the framework
\* before the endpoint is called; the others go to create_competitor_report
Post(maxJobs) ==
    /\ \E request \in PostRequests, lookupRaises, createRaises, enqueueRaises \in BOOLEAN :
          IF ~CompetitorReportRequest(request)
          THEN /\ lastSubmit' = [NoSubmit EXCEPT !.kind = "rejected", !.status = "failed",
                                                 !.hash = request]
               /\ UNCHANGED <<report_jobs, report_tasks>>
          ELSE create_competitor_report(request, maxJobs, lookupRaises, createRaises,
                                        enqueueRaises)
    /\ UNCHANGED <<now, report_results, hasRetryDelay, ingestVars, evalVars>>

\* ReportService.download_report, its return value: an error with a status, or the
\* row of report_results
download_report_AnyStatus(job_id, statusRaises, resultRaises) ==
    IF statusRaises \/ resultRaises
    THEN [error |-> TRUE, status |-> "error", content |-> FALSE]
    ELSE IF job_id \notin report_results
    THEN [error |-> TRUE, status |-> "not_found", content |-> FALSE]
    ELSE [error |-> FALSE, status |-> "none", content |-> TRUE]

download_report(job_id, statusRaises, resultRaises) ==
    LET job_status == get_report_job_status(report_jobs, job_id) IN
    IF statusRaises
    THEN [error |-> TRUE, status |-> "error", content |-> FALSE]
    ELSE IF job_status = "unknown"
    THEN [error |-> TRUE, status |-> "not_found", content |-> FALSE]
    ELSE IF job_status # "completed"
    THEN [error |-> TRUE, status |-> job_status, content |-> FALSE]
    ELSE IF resultRaises
    THEN [error |-> TRUE, status |-> "error", content |-> FALSE]
    ELSE IF job_id \notin report_results
    THEN [error |-> TRUE, status |-> "not_found", content |-> FALSE]
    ELSE [error |-> FALSE, status |-> "none", content |-> TRUE]

\* routers/reports.py, download_report: the status code of the answer
download_status_code(result) ==
    IF ~result.error THEN 200
    ELSE IF result.status = "not_found" THEN 404
    ELSE IF result.status \in {"pending", "running"} THEN 202
    ELSE 500

\* GET /{job_id}/download for a job id of the store or the next, unknown one; the
\* answer is recorded with the row the call could read
Download ==
    /\ \E job_id \in 1..(Len(report_jobs) + 1), statusRaises, resultRaises \in BOOLEAN :
          LET result == download_report(job_id, statusRaises, resultRaises) IN
          lastSubmit' = [kind |-> "download", job_id |-> job_id,
                         job_status |-> get_report_job_status(report_jobs, job_id),
                         reads_raised |-> statusRaises \/ resultRaises,
                         status_code |-> download_status_code(result),
                         content |-> result.content]
    /\ UNCHANGED <<now, report_jobs, report_results, report_tasks, hasRetryDelay,
                   ingestVars, evalVars>>

-----------------------------------------------------------------------------
(* Report worker: apps/celery_service/tasks/report_tasks.py *)

\* what an exception can say
ExcTexts == {"e1", "e2"}

\* the task id the runtime gives task number k: never the id of a report_jobs row
TaskId(k) == 0 - k

SetTask(k, pc, exc) ==
    report_tasks' = [report_tasks EXCEPT ![k] = [@ EXCEPT !.pc = pc, !.exc = exc]]

\* ReportTask.on_failure: the callback of a task that ended in an exception
on_failure(jobs, exc, task_id) ==
    update_report_job_status(jobs, task_id, "failed",
                             [kind |-> "callback", attempt |-> 0, exc |-> exc], now)

\* generate_competitor_report, line 76: update_report_job_status(job_id, "running");
\* excs are the exceptions the storage call can raise
WorkerBegin(k, excs) ==
    /\ report_tasks[k].pc = "queued"
    /\ \E o \in {"ok"} \cup excs :
         IF o = "ok"
         THEN /\ report_jobs' = update_report_job_status(
                                    report_jobs, report_tasks[k].job_id, "running",
                                    NoError, now)
              /\ SetTask(k, "running", report_tasks[k].exc)
         ELSE /\ SetTask(k, "except", o)
              /\ UNCHANGED report_jobs
    /\ lastSubmit' = NoSubmit
    /\ UNCHANGED <<now, report_results, hasRetryDelay, ingestVars, evalVars>>

\* _execute_report_generation up to save_report_result: the analysis and the report
\* generation return a result, return nothing or raise; every exception is caught
\* inside (line 236) and turned into a failure result
WorkerGenerate(k, excs) ==
    /\ report_tasks[k].pc = "running"
    /\ \E o \in {"ok", "analysis_empty", "llm_empty"} \cup excs :
         IF o = "ok"
         THEN /\ report_results' = save_report_result(report_results,
                                                       report_tasks[k].job_id)
              /\ SetTask(k, "saved", report_tasks[k].exc)
         ELSE /\ IF o \in excs
                 THEN SetTask(k, "logic_error", o)
                 ELSE SetTask(k, o, report_tasks[k].exc)
              /\ UNCHANGED report_results
    /\ lastSubmit' = NoSubmit
    /\ UNCHANGED <<now, report_jobs, hasRetryDelay, ingestVars, evalVars>>

\* _execute_report_generation, line 223: update_report_job_status(job_id, "completed")
WorkerComplete(k, excs) ==
    /\ report_tasks[k].pc = "saved"
    /\ \E o \in {"ok"} \cup excs :
         IF o = "ok"
         THEN /\ report_jobs' = update_report_job_status(
                                    report_jobs, report_tasks[k].job_id, "completed",
                                    NoError, now)
              /\ SetTask(k, "done", report_tasks[k].exc)
         ELSE /\ SetTask(k, "logic_error", o)
              /\ UNCHANGED report_jobs
    /\ lastSubmit' = NoSubmit
    /\ UNCHANGED <<now, report_results, hasRetryDelay, ingestVars, evalVars>>

\* the error text of a failure result of _execute_report_generation
ResultError(task) ==
    IF task.pc = "logic_error"
    THEN [kind |-> "logic_error", attempt |-> 0, exc |-> task.exc]
    ELSE [kind |-> task.pc, attempt |-> 0, exc |-> "none"]

\* generate_competitor_report, lines 98-109: the result says success = False
WorkerResultFailed(k, excs) ==
    /\ report_tasks[k].pc \in {"analysis_empty", "llm_empty", "logic_error"}
    /\ \E o \in {"ok"} \cup excs :
         IF o = "ok"
         THEN /\ report_jobs' = update_report_job_status(
                                    report_jobs, report_tasks[k].job_id, "failed",
                                    ResultError(report_tasks[k]), now)
              /\ SetTask(k, "done", report_tasks[k].exc)
         ELSE /\ SetTask(k, "except", o)
              /\ UNCHANGED report_jobs
    /\ lastSubmit' = NoSubmit
    /\ UNCHANGED <<now, report_results, hasRetryDelay, ingestVars, evalVars>>

\* generate_competitor_report, lines 111-140: the except branch.  An exception that
\* leaves the task (a status write that raises, or get_retry_delay missing) ends the
\* task in failure and the runtime calls on_failure with the task id.
WorkerExcept(k, excs) ==
    LET task == report_tasks[k]
        retrying == [kind |-> "retrying", attempt |-> task.retries + 1, exc |-> task.exc]
        exhausted == [kind |-> "exhausted", attempt |-> 0, exc |-> task.exc]
    IN
    /\ task.pc = "except"
    /\ \E o \in {"ok"} \cup excs :
         IF o # "ok"
         THEN /\ report_jobs' = on_failure(report_jobs, o, TaskId(k))
              /\ SetTask(k, "done", o)
         ELSE IF task.retries >= max_retries
         THEN /\ report_jobs' = update_report_job_status(
                                    report_jobs, task.job_id, "failed", exhausted, now)
              /\ SetTask(k, "done", task.exc)
         ELSE IF hasRetryDelay
         THEN /\ report_jobs' = update_report_job_status(
                                    report_jobs, task.job_id, "running", retrying, now)
              /\ report_tasks' = [report_tasks EXCEPT ![k] =
                                     [@ EXCEPT !.pc = "queued", !.retries = @ + 1]]
         ELSE /\ report_jobs' = on_failure(
                                    update_report_job_status(
                                        report_jobs, task.job_id, "running", retrying, now),
                                    "AttributeError", TaskId(k))
              /\ SetTask(k, "done", "AttributeError")
    /\ lastSubmit' = NoSubmit
    /\ UNCHANGED <<now, report_results, hasRetryDelay, ingestVars, evalVars>>

\* acks_late with reject_on_worker_lost: a task whose worker is lost before the
\* acknowledgement is delivered again
WorkerLost(k) ==
    /\ report_tasks[k].pc \in
           {"running", "saved", "analysis_empty", "llm_empty", "logic_error", "except"}
    /\ report_tasks' = [report_tasks EXCEPT ![k] = [@ EXCEPT !.pc = "queued"]]
    /\ lastSubmit' = NoSubmit
    /\ UNCHANGED <<now, report_jobs, report_results, hasRetryDelay, ingestVars, evalVars>>

\* acks_late: the message is acknowledged after the task has returned.  A worker
\* lost after the last status write of the task and before the acknowledgement
\* leaves the message to be delivered again.
WorkerLostBeforeAck(k) ==
    /\ report_tasks[k].pc = "done"
    /\ report_tasks' = [report_tasks EXCEPT ![k] = [@ EXCEPT !.pc = "queued"]]
    /\ lastSubmit' = NoSubmit
    /\ UNCHANGED <<now, report_jobs, report_results, hasRetryDelay, ingestVars, evalVars>>

\* time_limit = 1800: the runtime ends an attempt that runs longer, the task fails
\* and on_failure is called with the task id; how long an attempt has run is not
\* followed
WorkerTimeLimit(k) ==
    /\ report_tasks[k].pc \in
           {"running", "saved", "analysis_empty", "llm_empty", "logic_error", "except"}
    /\ report_jobs' = on_failure(report_jobs, "TimeLimitExceeded", TaskId(k))
    /\ SetTask(k, "done", "TimeLimitExceeded")
    /\ lastSubmit' = NoSubmit
    /\ UNCHANGED <<now, report_results, hasRetryDelay, ingestVars, evalVars>>

\* the clock moves on
Tick(instants) == \E t \in instants : t > now /\ now' = t

ReportTick ==
    /\ Tick(Instants(ReportSlots))
    /\ lastSubmit' = NoSubmit
    /\ UNCHANGED <<report_jobs, report_results, report_tasks, hasRetryDelay,
                   ingestVars, evalVars>>

-----------------------------------------------------------------------------
(* Alert evaluator: apps/api_service/services/alert_check_service.py *)

Abs(x) == IF x < 0 THEN 0 - x ELSE x

\* a change value is the fraction num / den with den > 0; the code holds it as a
\* float, the values of the model are those the float computation gives exactly
ChangePercent(current, previous) ==
    [num |-> IF previous < 0 THEN (previous - current) * 100
                             ELSE (current - previous) * 100,
     den |-> Abs(previous)]

\* round(change_percent, 2), in hundredths: the nearest one, a tie to the even one
Round2(change) ==
    LET q == (change.num * 100) \div change.den
        r == (change.num * 100) % change.den
    IN IF 2 * r < change.den THEN q
       ELSE IF 2 * r > change.den THEN q + 1
       ELSE IF q % 2 = 0 THEN q ELSE q + 1

\* _should_trigger_alert with a strict comparison for direction increase
_should_trigger_alert_Strict(rule, change_value) ==
    IF rule.change_direction = "increase"
    THEN change_value.num > rule.threshold * change_value.den
    ELSE IF rule.change_direction = "decrease"
    THEN change_value.num <= (0 - rule.threshold) * change_value.den
    ELSE IF rule.change_direction = "any"
    THEN Abs(change_value.num) >= rule.threshold * change_value.den
    ELSE FALSE

\* _should_trigger_alert that compares the signed change for direction any
_should_trigger_alert_AnySigned(rule, change_value) ==
    IF rule.change_direction = "increase"
    THEN change_value.num >= rule.threshold * change_value.den
    ELSE IF rule.change_direction = "decrease"
    THEN change_value.num <= (0 - rule.threshold) * change_value.den
    ELSE IF rule.change_direction = "any"
    THEN change_value.num >= rule.threshold * change_value.den
    ELSE FALSE

\* _should_trigger_alert: the branch for threshold_type percentage and the branch
\* for every other threshold_type make the same comparisons
_should_trigger_alert(rule, change_value) ==
    IF rule.change_direction = "increase"
    THEN change_value.num >= rule.threshold * change_value.den
    ELSE IF rule.change_direction = "decrease"
    THEN change_value.num <= (0 - rule.threshold) * change_value.den
    ELSE IF rule.change_direction = "any"
    THEN Abs(change_value.num) >= rule.threshold * change_value.den
    ELSE FALSE

\* the alert_data of _check_price_alerts; change_percent is in hundredths
PriceAlertData(asin, rule, latest, previous, change_percent) ==
    [asin |-> asin,
     rule_id |-> rule.id,
     previous_value |-> previous.price,
     current_value |-> latest.price,
     change_percent |-> Round2(change_percent),
     snapshot_date |-> latest.snapshot_date]

IsPriceRule(rule) == rule.rule_type = "price_change"

\* _check_price_alerts; stored are the ids of the rules whose alert record
\* create_alert_record stores (it returns False for the others)
_check_price_alerts(asin, latest, previous, rules, stored) ==
    LET price_rules == SelectSeq(rules, IsPriceRule)
        current_price == latest.price
        previous_price == previous.price
    IN
    IF price_rules = <<>> THEN <<>>
    ELSE IF current_price = Null \/ previous_price = Null \/ previous_price = 0
    THEN <<>>
    ELSE LET change_percent == ChangePercent(current_price, previous_price)
             Triggered(rule) == /\ _should_trigger_alert(rule, change_percent)
                                /\ rule.id \in stored
             triggered == SelectSeq(price_rules, Triggered)
         IN [i \in 1..Len(triggered) |->
                PriceAlertData(asin, triggered[i], latest, previous, change_percent)]

\* _check_bsr_alerts, line 179: a lower rank is a positive change
RankChangePercent(current_rank, previous_rank) ==
    [num |-> IF previous_rank < 0 THEN (current_rank - previous_rank) * 100
                                  ELSE (previous_rank - current_rank) * 100,
     den |-> Abs(previous_rank)]

\* _check_rating_alerts, line 228: the change of the rating is a difference
ChangeAmount(current, previous) == [num |-> current - previous, den |-> 1]

\* the alert_data of _check_bsr_alerts and of _check_rating_alerts
AlertData(asin, rule, previous_value, current_value, change, snapshot_date) ==
    [asin |-> asin,
     rule_id |-> rule.id,
     previous_value |-> previous_value,
     current_value |-> current_value,
     change_percent |-> Round2(change),
     snapshot_date |-> snapshot_date]

IsBsrRule(rule) == rule.rule_type = "bsr_change"

IsRatingRule(rule) == rule.rule_type = "rating_change"

\* bsr_data[0].get("rank") of a ranking list that is not empty
MainRank(bsr_data) == Head(bsr_data).rank

\* _check_bsr_alerts that compares the last ranking of each list
_check_bsr_alerts_LastRanking(asin, latest, previous, rules, stored) ==
    LET bsr_rules == SelectSeq(rules, IsBsrRule)
        current_bsr == latest.bsr_data
        previous_bsr == previous.bsr_data
    IN
    IF bsr_rules = <<>> THEN <<>>
    ELSE IF current_bsr = <<>> \/ previous_bsr = <<>> THEN <<>>
    ELSE LET current_rank == current_bsr[Len(current_bsr)].rank
             previous_rank == previous_bsr[Len(previous_bsr)].rank
         IN
         IF current_rank = Null \/ previous_rank = Null \/ previous_rank = 0
         THEN <<>>
         ELSE LET change_percent == RankChangePercent(current_rank, previous_rank)
                  Triggered(rule) == /\ _should_trigger_alert(rule, change_percent)
                                     /\ rule.id \in stored
                  triggered == SelectSeq(bsr_rules, Triggered)
              IN [i \in 1..Len(triggered) |->
                     AlertData(asin, triggered[i], previous_rank, current_rank,
                               change_percent, latest.snapshot_date)]

\* _check_bsr_alerts; stored are the ids of the rules whose alert record
\* create_alert_record stores
_check_bsr_alerts(asin, latest, previous, rules, stored) ==
    LET bsr_rules == SelectSeq(rules, IsBsrRule)
        current_bsr == latest.bsr_data
        previous_bsr == previous.bsr_data
    IN
    IF bsr_rules = <<>> THEN <<>>
    ELSE IF current_bsr = <<>> \/ previous_bsr = <<>> THEN <<>>
    ELSE LET current_rank == MainRank(current_bsr)
             previous_rank == MainRank(previous_bsr)
         IN
         IF current_rank = Null \/ previous_rank = Null \/ previous_rank = 0
         THEN <<>>
         ELSE LET change_percent == RankChangePercent(current_rank, previous_rank)
                  Triggered(rule) == /\ _should_trigger_alert(rule, change_percent)
                                     /\ rule.id \in stored
                  triggered == SelectSeq(bsr_rules, Triggered)
              IN [i \in 1..Len(triggered) |->
                     AlertData(asin, triggered[i], previous_rank, current_rank,
                               change_percent, latest.snapshot_date)]

\* _check_rating_alerts
_check_rating_alerts(asin, latest, previous, rules, stored) ==
    LET rating_rules == SelectSeq(rules, IsRatingRule)
        current_rating == latest.rating
        previous_rating == previous.rating
    IN
    IF rating_rules = <<>> THEN <<>>
    ELSE IF current_rating = Null \/ previous_rating = Null THEN <<>>
    ELSE LET change_amount == ChangeAmount(current_rating, previous_rating)
             Triggered(rule) == /\ _should_trigger_alert(rule, change_amount)
                                /\ rule.id \in stored
             triggered == SelectSeq(rating_rules, Triggered)
         IN [i \in 1..Len(triggered) |->
                AlertData(asin, triggered[i], previous_rating, current_rating,
                          change_amount, latest.snapshot_date)]

\* check_alerts_for_asin, lines 68-90, with the rating alerts put first
triggered_alerts_RatingFirst(asin, latest, previous, rules, stored) ==
    _check_rating_alerts(asin, latest, previous, rules, stored)
        \o _check_price_alerts(asin, latest, previous, rules, stored)
        \o _check_bsr_alerts(asin, latest, previous, rules, stored)

\* check_alerts_for_asin, lines 68-90: the alerts of the price, then those of the
\* ranking, then those of the rating
triggered_alerts(asin, latest, previous, rules, stored) ==
    _check_price_alerts(asin, latest, previous, rules, stored)
        \o _check_bsr_alerts(asin, latest, previous, rules, stored)
        \o _check_rating_alerts(asin, latest, previous, rules, stored)

\* the arguments of one call of the evaluator
EvalPrices == {Null, 0, 80, 100, 120}
EvalThresholds == {15, 20, 25}
EvalDirections == {"increase", "decrease", "any"}
EvalRuleTypes == {"price_change", "rating_change"}
MaxRules == 2

EvalRule(id, rule_type, threshold, change_direction) ==
    [id |-> id, rule_type |-> rule_type, threshold |-> threshold,
     change_direction |-> change_direction, threshold_type |-> "percentage"]

\* the rule lists: the rule at position i has id i
EvalRuleLists ==
    UNION {[1..n -> (EvalRuleTypes \X EvalThresholds) \X EvalDirections] :
              n \in 1..MaxRules}

RulesOf(list) ==
    [i \in DOMAIN list |-> EvalRule(i, list[i][1][1], list[i][1][2], list[i][2])]

EvalSnapshot(date, price) == [asin |-> "a1", snapshot_date |-> date, price |-> price]

NoEval ==
    [pc |-> "idle", latest |-> EvalSnapshot(1, Null), previous |-> EvalSnapshot(0, Null),
     rules |-> <<>>, stored |-> {}, events |-> <<>>]

EvalIdle == eval = NoEval

-----------------------------------------------------------------------------
(* Identifier status store: shared/database/asin_status_queries.py *)

\* the asins with a row in asin_status (no code of the repository adds or removes
\* a row), and one asin without a row
StoreAsins == {"a1"}
UnknownAsin == "x9"
AllAsins == StoreAsins \cup {UnknownAsin}

\* an item without asin: item.get("asin") is None
NoAsin == ""

\* asin lists are written in this order
AsinOrder == <<"a1", "x9">>

Range(s) == {s[i] : i \in DOMAIN s}

ListOf(S) ==
    LET Member(a) == a \in S IN SelectSeq(AsinOrder, Member)

\* the row of an asin that has not been fetched yet
NewAsinRow == [status |-> "pending", task_timestamp |-> Null, retry_count |-> 0]

\* get_asins_to_scrape: yesterday at 23:59:59.999999
one_day_ago(t) == (DateOf(t) - 1) * SecondsPerDay + LastSecondOfDay

five_minutes_ago(t) == t - FiveMinutes

\* the or-filter of get_asins_to_scrape with <= in the clause for running
Eligible_StaleAtFiveMinutes(row, t) ==
    \/ row.status = "pending"
    \/ /\ row.status = "completed"
       /\ row.task_timestamp # Null
       /\ row.task_timestamp <= one_day_ago(t)
    \/ /\ row.status = "running"
       /\ row.task_timestamp # Null
       /\ row.task_timestamp <= five_minutes_ago(t)
    \/ /\ row.status = "failed"
       /\ row.retry_count < RetryLimit

\* the or-filter of get_asins_to_scrape with now - 1 day in the clause for completed
Eligible_OneDayBefore(row, t) ==
    \/ row.status = "pending"
    \/ /\ row.status = "completed"
       /\ row.task_timestamp # Null
       /\ row.task_timestamp <= t - SecondsPerDay
    \/ /\ row.status = "running"
       /\ row.task_timestamp # Null
       /\ row.task_timestamp < five_minutes_ago(t)
    \/ /\ row.status = "failed"
       /\ row.retry_count < RetryLimit

\* the or-filter of get_asins_to_scrape with <= in the clause for failed
Eligible_RetriesAtLimit(row, t) ==
    \/ row.status = "pending"
    \/ /\ row.status = "completed"
       /\ row.task_timestamp # Null
       /\ row.task_timestamp <= one_day_ago(t)
    \/ /\ row.status = "running"
       /\ row.task_timestamp # Null
       /\ row.task_timestamp < five_minutes_ago(t)
    \/ /\ row.status = "failed"
       /\ row.retry_count <= RetryLimit

\* the or-filter of get_asins_to_scrape without the clause for running
Eligible_NoReclaim(row, t) ==
    \/ row.status = "pending"
    \/ /\ row.status = "completed"
       /\ row.task_timestamp # Null
       /\ row.task_timestamp <= one_day_ago(t)
    \/ /\ row.status = "failed"
       /\ row.retry_count < RetryLimit

\* the or-filter of get_asins_to_scrape; a comparison with a null column is not true
Eligible(row, t) ==
    \/ row.status = "pending"
    \/ /\ row.status = "completed"
       /\ row.task_timestamp # Null
       /\ row.task_timestamp <= one_day_ago(t)
    \/ /\ row.status = "running"
       /\ row.task_timestamp # Null
       /\ row.task_timestamp < five_minutes_ago(t)
    \/ /\ row.status = "failed"
       /\ row.retry_count < RetryLimit

\* get_asins_to_scrape(limit = 100): the store of the model has fewer rows than
\* the limit, and the order of the list has no effect on what is modelled here
get_asins_to_scrape(store, t) ==
    ListOf({a \in DOMAIN store : Eligible(store[a], t)})

\* .order("task_timestamp", desc=False): row r may stand before row q; the rows
\* without a timestamp stand last, rows with the same timestamp in any order
OrderedBefore(r, q) ==
    \/ q.task_timestamp = Null
    \/ /\ r.task_timestamp # Null
       /\ r.task_timestamp <= q.task_timestamp

\* the orders in which the query can return the rows of the asins in S
Ordered(store, S) ==
    {s \in [1..Cardinality(S) -> S] :
        /\ \A i, j \in DOMAIN s : i # j => s[i] # s[j]
        /\ \A i, j \in DOMAIN s : i < j => OrderedBefore(store[s[i]], store[s[j]])}

\* .limit(limit)
Limit(s, limit) == SubSeq(s, 1, IF Len(s) < limit THEN Len(s) ELSE limit)

\* the query with the rows in descending order of task_timestamp
get_pending_asins_NewestFirst(store, t, limit) ==
    LET S == {a \in DOMAIN store : Eligible(store[a], t)}
    IN {Limit(s, limit) :
           s \in {q \in [1..Cardinality(S) -> S] :
                     /\ \A i, j \in DOMAIN q : i # j => q[i] # q[j]
                     /\ \A i, j \in DOMAIN q :
                            i < j => OrderedBefore(store[q[j]], store[q[i]])}}

\* get_pending_asins(limit) = get_asins_to_scrape(limit): the lists the query can
\* return, filter, order and limit
get_pending_asins(store, t, limit) ==
    {Limit(s, limit) : s \in Ordered(store, {a \in DOMAIN store : Eligible(store[a], t)})}

\* the update of one row without the increment of retry_count
UpdateRow_NoIncrement(row, status, task_timestamp) ==
    [row EXCEPT
        !.status = status,
        !.task_timestamp =
            IF status = "running" /\ task_timestamp # Null THEN task_timestamp ELSE @]

\* the update of one row with an increment of retry_count for every status
UpdateRow_CountsEveryUpdate(row, status, task_timestamp) ==
    [row EXCEPT
        !.status = status,
        !.task_timestamp =
            IF status = "running" /\ task_timestamp # Null THEN task_timestamp ELSE @,
        !.retry_count = @ + 1]

\* the update bulk_update_asin_status prepares for one row
UpdateRow(row, status, task_timestamp) ==
    [row EXCEPT
        !.status = status,
        !.task_timestamp =
            IF status = "running" /\ task_timestamp # Null THEN task_timestamp ELSE @,
        !.retry_count = IF status = "failed" THEN @ + 1 ELSE @]

Remove(s, a) ==
    LET Other(b) == b # a IN SelectSeq(s, Other)

UpdateResult(store, successful_asins, failed_asins) ==
    [store |-> store,
     successful_asins |-> successful_asins,
     failed_asins |-> failed_asins,
     success |-> failed_asins = <<>>]

\* bulk_update_asin_status, lines 161-214: the row by row updates after the bulk
\* update raised; rowFails are the asins whose own update raises or returns no data
RECURSIVE PerRowUpdate(_, _, _, _, _, _, _)
PerRowUpdate(store, asins, status, task_timestamp, rowFails, successful_asins, failed_asins) ==
    IF asins = <<>>
    THEN UpdateResult(store, successful_asins, failed_asins)
    ELSE LET asin == Head(asins) IN
         IF asin \notin DOMAIN store
         THEN PerRowUpdate(store, Tail(asins), status, task_timestamp, rowFails,
                           successful_asins, Append(failed_asins, asin))
         ELSE IF asin \in rowFails
         THEN PerRowUpdate(store, Tail(asins), status, task_timestamp, rowFails,
                           Remove(successful_asins, asin), Append(failed_asins, asin))
         ELSE PerRowUpdate([store EXCEPT ![asin] = UpdateRow(@, status, task_timestamp)],
                           Tail(asins), status, task_timestamp, rowFails,
                           IF asin \in Range(successful_asins)
                           THEN successful_asins
                           ELSE Append(successful_asins, asin),
                           failed_asins)

valid_statuses == {"pending", "running", "completed", "failed"}

\* upsert(bulk_update_data, on_conflict="asin"): the row of an asin of the data is
\* updated, and inserted if the table has none
upsert(store, asins, status, task_timestamp) ==
    [a \in DOMAIN store \cup Range(asins) |->
        IF a \in Range(asins)
        THEN UpdateRow(IF a \in DOMAIN store THEN store[a] ELSE NewAsinRow,
                       status, task_timestamp)
        ELSE store[a]]

\* bulk_update_asin_status that puts every asin of the list in the bulk update
bulk_update_asin_status_UpsertsAll(store, asins, status, task_timestamp, raisedAt, rowFails) ==
    IF asins = <<>> THEN UpdateResult(store, <<>>, <<>>)
    ELSE IF status \notin valid_statuses THEN UpdateResult(store, <<>>, asins)
    ELSE IF raisedAt = "select"
    THEN PerRowUpdate(store, asins, status, task_timestamp, rowFails, <<>>, <<>>)
    ELSE IF raisedAt = "upsert"
    THEN PerRowUpdate(store, asins, status, task_timestamp, rowFails, asins, <<>>)
    ELSE UpdateResult(upsert(store, asins, status, task_timestamp), asins, <<>>)

\* bulk_update_asin_status; raisedAt says whether the select or the upsert of the
\* bulk path raises ("none": neither); a storage call that raises has changed
\* nothing.  The client is always there.
bulk_update_asin_status(store, asins, status, task_timestamp, raisedAt, rowFails) ==
    LET InStore(a) == a \in DOMAIN store
        NotInStore(a) == a \notin DOMAIN store
        present == SelectSeq(asins, InStore)
        missing == SelectSeq(asins, NotInStore)
    IN
    IF asins = <<>> THEN UpdateResult(store, <<>>, <<>>)
    ELSE IF status \notin valid_statuses THEN UpdateResult(store, <<>>, asins)
    ELSE IF raisedAt = "select"
    THEN PerRowUpdate(store, asins, status, task_timestamp, rowFails, <<>>, <<>>)
    ELSE IF raisedAt = "upsert" /\ present # <<>>
    THEN PerRowUpdate(store, asins, status, task_timestamp, rowFails, present, missing)
    ELSE UpdateResult(upsert(store, present, status, task_timestamp), present, missing)

\* how a call of bulk_update_asin_status on these asins can go: the bulk path
\* works, or it raises at one of the given places and some row updates fail
UpdateFaults(asins, places) ==
    {[raisedAt |-> "none", rowFails |-> {}]}
        \cup {[raisedAt |-> at, rowFails |-> fails] :
                 at \in places, fails \in SUBSET (Range(asins) \cap StoreAsins)}

\* no row counts more failures than the model follows
WithinRetryBound(store) == \A a \in DOMAIN store : store[a].retry_count <= MaxRetryCount

-----------------------------------------------------------------------------
(* Scheduler and fetch task: apps/celery_service/tasks/amazon_tasks.py *)

NoSelect == [kind |-> "none", asins |-> <<>>]

NoUpdate ==
    [kind |-> "none", asins |-> <<>>, status |-> "none", task_timestamp |-> Null,
     raisedAt |-> "none", successful_asins |-> <<>>, failed_asins |-> <<>>,
     success |-> TRUE, before |-> <<>>]

NoWebhook ==
    [kind |-> "none", event_type |-> "none", status |-> "none",
     batch |-> <<>>, asins |-> <<>>, invalid |-> FALSE,
     writes_raised |-> FALSE, products_success |-> FALSE,
     snapshots_success |-> FALSE, steps |-> <<>>,
     target |-> "none", successful_asins |-> <<>>, failed_asins |-> <<>>,
     evaluated |-> <<>>, before |-> <<>>]

\* a fetch_amazon_products message: its asins and self.request.retries; dispatched
\* remembers the rows as they were when the scheduler sent the message
FetchTask(asins, retries, dispatched) ==
    [asins |-> asins, retries |-> retries, dispatched |-> dispatched]

\* schedule_amazon_scraping that sends the fetch message whatever the selection gave
schedule_amazon_scraping_AlwaysSends(selectRaises) ==
    LET asins_to_scrape == IF selectRaises THEN <<>>
                           ELSE get_asins_to_scrape(asin_status, now)
    IN
    /\ Cardinality(fetch_tasks) + Cardinality(runs) < MaxRuns
    /\ fetch_tasks' = fetch_tasks \cup {FetchTask(asins_to_scrape, 0, asin_status)}
    /\ lastSelect' = [kind |-> IF selectRaises THEN "raised" ELSE "selected",
                      asins |-> asins_to_scrape]
    /\ lastUpdate' = NoUpdate
    /\ lastWebhook' = NoWebhook
    /\ UNCHANGED <<now, asin_status, runs, products, product_snapshots, alert_records,
                   reportVars, evalVars>>

\* schedule_amazon_scraping; a selection that raises gives the empty list
schedule_amazon_scraping(selectRaises) ==
    LET asins_to_scrape == IF selectRaises THEN <<>>
                           ELSE get_asins_to_scrape(asin_status, now)
    IN
    /\ asins_to_scrape # <<>> =>
           Cardinality(fetch_tasks) + Cardinality(runs) < MaxRuns
    /\ fetch_tasks' = IF asins_to_scrape = <<>> THEN fetch_tasks
                      ELSE fetch_tasks \cup {FetchTask(asins_to_scrape, 0, asin_status)}
    /\ lastSelect' = [kind |-> IF selectRaises THEN "raised" ELSE "selected",
                      asins |-> asins_to_scrape]
    /\ lastUpdate' = NoUpdate
    /\ lastWebhook' = NoWebhook
    /\ UNCHANGED <<now, asin_status, runs, products, product_snapshots, alert_records,
                   reportVars, evalVars>>

Schedule == \E selectRaises \in BOOLEAN : schedule_amazon_scraping(selectRaises)

\* self.retry(exc=exc, countdown=60, max_retries=3): the message is sent again
\* until it has been retried fetch_max_retries times
retry(task) ==
    IF task.retries < fetch_max_retries
    THEN {[task EXCEPT !.retries = @ + 1]}
    ELSE {}

\* fetch_amazon_products that marks the rows before it asks the provider
fetch_status_MarkedFirst(outcome) == "running"

\* the status fetch_amazon_products writes: running once the provider has started
\* the run, failed otherwise
fetch_status(outcome) == IF outcome = "started" THEN "running" ELSE "failed"

\* fetch_amazon_products: the provider starts a run ("started") or not ("error"),
\* or the task raises before it has asked the provider ("raised")
fetch_amazon_products(task, outcome, fault) ==
    LET asins == task.asins
        status == fetch_status(outcome)
        update == bulk_update_asin_status(asin_status, asins, status,
                                          IF outcome = "started" THEN now ELSE Null,
                                          fault.raisedAt, fault.rowFails)
    IN
    /\ WithinRetryBound(update.store)
    /\ asin_status' = update.store
    /\ runs' = IF outcome = "started" THEN runs \cup {asins} ELSE runs
    /\ fetch_tasks' = (fetch_tasks \ {task})
                          \cup (IF outcome = "raised" THEN retry(task) ELSE {})
    /\ lastSelect' = NoSelect
    /\ lastWebhook' = NoWebhook
    /\ lastUpdate' = [kind |-> "fetch", asins |-> asins, outcome |-> outcome,
                      retries |-> task.retries,
                      failed_asins |-> update.failed_asins,
                      before |-> asin_status, dispatched |-> task.dispatched]
    /\ UNCHANGED <<now, products, product_snapshots, alert_records, reportVars, evalVars>>

\* the outcomes of a worker that has its provider token, and of any worker
FetchOutcomes == {"started", "error"}
DispatchOutcomes == FetchOutcomes \cup {"raised"}

Fetch(outcomes) ==
    \E task \in fetch_tasks, outcome \in outcomes :
        \E fault \in UpdateFaults(task.asins, {"select", "upsert"}) :
            fetch_amazon_products(task, outcome, fault)

-----------------------------------------------------------------------------
(* Catalog and snapshots: shared/database/products_queries.py, snapshots_queries.py *)

HasAsin(item) == item.asin # NoAsin

AsinsOf(items) ==
    LET with == SelectSeq(items, HasAsin) IN [i \in DOMAIN with |-> with[i].asin]

\* bulk_update_products that fails when an item has no asin
bulk_update_products_Strict(table, items, raises) ==
    LET prepared == SelectSeq(items, HasAsin) IN
    IF items = <<>> THEN [success |-> TRUE, table |-> table]
    ELSE IF prepared # items \/ raises THEN [success |-> FALSE, table |-> table]
    ELSE [success |-> TRUE, table |-> table \cup Range(AsinsOf(prepared))]

\* bulk_update_products: items without asin are skipped; raises says whether the
\* upsert raises
bulk_update_products(table, items, raises) ==
    LET prepared == SelectSeq(items, HasAsin) IN
    IF items = <<>> \/ prepared = <<>> THEN [success |-> TRUE, table |-> table]
    ELSE IF raises THEN [success |-> FALSE, table |-> table]
    ELSE [success |-> TRUE, table |-> table \cup Range(AsinsOf(prepared))]

\* bulk_create_snapshots: rows without asin are skipped; raises says whether the
\* insert raises
bulk_create_snapshots(table, snapshots, raises) ==
    LET prepared == SelectSeq(snapshots, HasAsin) IN
    IF snapshots = <<>> \/ prepared = <<>> THEN [success |-> TRUE, table |-> table]
    ELSE IF raises THEN [success |-> FALSE, table |-> table]
    ELSE [success |-> TRUE, table |-> table \cup Range(prepared)]

NoSnapshot == [asin |-> NoAsin, snapshot_date |-> Null, price |-> Null]

LatestOf(rows) ==
    IF rows = {} THEN NoSnapshot
    ELSE CHOOSE s \in rows : \A o \in rows : o.snapshot_date <= s.snapshot_date

get_latest_snapshot(table, asin) == LatestOf({s \in table : s.asin = asin})

get_previous_snapshot(table, asin, current_date) ==
    LatestOf({s \in table : s.asin = asin /\ s.snapshot_date < current_date})

\* the active rules of the identifier pipeline: one price rule
ActiveRules ==
    <<[id |-> 1, rule_type |-> "price_change", threshold |-> 15,
       change_direction |-> "decrease", threshold_type |-> "percentage"]>>

\* what can go wrong in the evaluation of one asin: a snapshot cannot be read
\* (the query returns None), the rules cannot be read (an empty list), or a check
\* raises
EvalFaults == {"none", "latest", "previous", "rules", "raises"}

\* check_alerts_for_asin; the rules of the pipeline are price rules, so the checks
\* of the ranking and of the rating return before they read a snapshot; an
\* exception anywhere in the function ends it with the empty list
check_alerts_for_asin(table, asin, rules, stored, fault) ==
    LET latest_snapshot == IF fault = "latest" THEN NoSnapshot
                           ELSE get_latest_snapshot(table, asin)
        previous_snapshot ==
            IF fault = "previous" THEN NoSnapshot
            ELSE get_previous_snapshot(table, asin, latest_snapshot.snapshot_date)
    IN
    IF fault = "raises" THEN <<>>
    ELSE IF latest_snapshot = NoSnapshot THEN <<>>
    ELSE IF previous_snapshot = NoSnapshot THEN <<>>
    ELSE IF rules = <<>> \/ fault = "rules" THEN <<>>
    ELSE triggered_alerts(asin, latest_snapshot, previous_snapshot, rules, stored)

\* check_alerts_for_asins where the first asin that fails ends the loop
RECURSIVE check_alerts_for_asins_Aborts(_, _, _, _, _)
check_alerts_for_asins_Aborts(table, asins, rules, stored, faults) ==
    IF asins = <<>> \/ faults[Head(asins)] # "none" THEN <<>>
    ELSE (Head(asins) :> check_alerts_for_asin(table, Head(asins), rules, stored, "none"))
             @@ check_alerts_for_asins_Aborts(table, Tail(asins), rules, stored, faults)

\* check_alerts_for_asins: the alerts of every asin of the list, by asin
check_alerts_for_asins(table, asins, rules, stored, faults) ==
    [asin \in Range(asins) |->
        check_alerts_for_asin(table, asin, rules, stored, faults[asin])]

-----------------------------------------------------------------------------
(* Webhook ingestion: apps/api_service/services/webhook_service.py *)

\* the price the provider reports for a product on a day
PriceOn(date) == IF date = 0 THEN 100 ELSE 80

\* the parsed items of a dataset: one for each asin of the list and, if invalid,
\* one that has no asin
DatasetItems(asins, invalid, date) ==
    [i \in DOMAIN asins |-> [asin |-> asins[i], price |-> PriceOn(date)]]
        \o (IF invalid THEN <<[asin |-> NoAsin, price |-> Null]>> ELSE <<>>)

SnapshotsData(items, date) ==
    [i \in DOMAIN items |->
        [asin |-> items[i].asin, snapshot_date |-> date, price |-> items[i].price]]

\* the event types and the resource statuses of a webhook
EventTypes == {"ACTOR.RUN.SUCCEEDED", "ACTOR.RUN.FAILED"}
ResourceStatuses == {"SUCCEEDED", "FAILED"}

\* the handler takes a webhook for a success on its event type alone
IsSucceeded_EventOnly(payload) == payload.event_type = "ACTOR.RUN.SUCCEEDED"

\* process_amazon_webhook, lines 89-92: the webhook of a run that succeeded
IsSucceeded(payload) ==
    /\ payload.event_type = "ACTOR.RUN.SUCCEEDED"
    /\ payload.status = "SUCCEEDED"

\* the payloads a run of the provider can send: the run did not succeed (its
\* dataset may hold items all the same), or it succeeded with items for some
\* asins of its batch, for an asin nobody tracks, and with or without an item
\* that has no asin
Payloads(batch) ==
    {[event_type |-> e, status |-> st, asins |-> batch, invalid |-> FALSE] :
        e \in EventTypes, st \in ResourceStatuses}
        \cup {[event_type |-> "ACTOR.RUN.SUCCEEDED", status |-> "SUCCEEDED",
               asins |-> ListOf(S), invalid |-> invalid] :
                 S \in SUBSET (Range(batch) \cup {UnknownAsin}), invalid \in BOOLEAN}

\* WebhookService._process_successful_webhook on a dataset that has items, lines
\* 151-288, given what bulk_create_snapshots returned and left in the table
ingest_dataset(batch, payload, productsRaises, snapshotsRaises, snapshots_result, fault, alertStored) ==
    LET current_date == DateOf(now)
        dataset_items == DatasetItems(payload.asins, payload.invalid, current_date)
        products_result == bulk_update_products(products, dataset_items, productsRaises)
        both == products_result.success /\ snapshots_result.success
        successful_asins == AsinsOf(dataset_items)
        target == IF both THEN "completed" ELSE "failed"
        update == bulk_update_asin_status(asin_status, successful_asins, target, Null,
                                          fault.raisedAt, fault.rowFails)
        \* with no asin at all the result has no success_count: the log line raises
        \* and the handler ends before the alerts
        evaluated == IF both THEN successful_asins ELSE <<>>
        stored == IF alertStored THEN {ActiveRules[i].id : i \in DOMAIN ActiveRules}
                  ELSE {}
        events == UNION {Range(check_alerts_for_asin(snapshots_result.table, asin,
                                                     ActiveRules, stored, "none")) :
                            asin \in Range(evaluated)}
    IN
    /\ WithinRetryBound(update.store)
    /\ products' = products_result.table
    /\ product_snapshots' = snapshots_result.table
    /\ asin_status' = update.store
    /\ alert_records' = alert_records \cup events
    /\ lastWebhook' =
           [kind |-> "ingested", event_type |-> payload.event_type,
            status |-> payload.status, batch |-> batch, asins |-> payload.asins,
            invalid |-> payload.invalid,
            writes_raised |-> productsRaises \/ snapshotsRaises,
            products_success |-> products_result.success,
            snapshots_success |-> snapshots_result.success,
            steps |-> <<"products", "snapshots", "status">>
                          \o (IF evaluated # <<>> THEN <<"alerts">> ELSE <<>>),
            target |-> target,
            successful_asins |-> update.successful_asins,
            failed_asins |-> update.failed_asins,
            evaluated |-> evaluated,
            before |-> asin_status]

\* WebhookService._process_successful_webhook on a dataset that has items; the rows
\* of product_snapshots are told apart by asin, date and price
_process_successful_webhook(batch, payload, productsRaises, snapshotsRaises, fault, alertStored) ==
    ingest_dataset(batch, payload, productsRaises, snapshotsRaises,
                   bulk_create_snapshots(
                       product_snapshots,
                       SnapshotsData(DatasetItems(payload.asins, payload.invalid,
                                                  DateOf(now)),
                                     DateOf(now)),
                       snapshotsRaises),
                   fault, alertStored)

\* WebhookService.process_amazon_webhook for the run of a batch
process_amazon_webhook(batch, payload, productsRaises, snapshotsRaises, fault, alertStored) ==
    /\ IF IsSucceeded(payload) /\ (payload.asins # <<>> \/ payload.invalid)
       THEN _process_successful_webhook(batch, payload, productsRaises,
                                        snapshotsRaises, fault, alertStored)
       ELSE /\ lastWebhook' = [NoWebhook EXCEPT
                                  !.kind = IF IsSucceeded(payload) THEN "empty"
                                           ELSE "ignored",
                                  !.event_type = payload.event_type,
                                  !.status = payload.status,
                                  !.batch = batch]
            /\ UNCHANGED <<asin_status, products, product_snapshots, alert_records>>
    /\ runs' = runs \ {batch}
    /\ lastSelect' = NoSelect
    /\ lastUpdate' = NoUpdate
    /\ UNCHANGED <<now, fetch_tasks, reportVars, evalVars>>

\* whether a write can raise: no write is made for a payload without asins
WriteOutcomes(payload) ==
    IF payload.asins = <<>> \/ ~IsSucceeded(payload) THEN {FALSE} ELSE BOOLEAN

\* whether create_alert_record stores: it is called only for an asin that has a
\* snapshot of an earlier day
AlertOutcomes ==
    IF \E s \in product_snapshots : s.snapshot_date < DateOf(now)
    THEN BOOLEAN ELSE {TRUE}

Webhook ==
    \E batch \in runs :
        \E payload \in Payloads(batch), alertStored \in AlertOutcomes :
            \E productsRaises, snapshotsRaises \in WriteOutcomes(payload),
               fault \in UpdateFaults(payload.asins, {"upsert"}) :
                process_amazon_webhook(batch, payload, productsRaises, snapshotsRaises,
                                       fault, alertStored)

IngestTick ==
    /\ Tick(IngestInstants)
    /\ lastSelect' = NoSelect
    /\ lastWebhook' = NoWebhook
    /\ lastUpdate' = NoUpdate
    /\ UNCHANGED <<asin_status, fetch_tasks, runs, products, product_snapshots,
                   alert_records, reportVars, evalVars>>

IngestIdle ==
    /\ asin_status = [a \in StoreAsins |-> NewAsinRow]
    /\ fetch_tasks = {}
    /\ runs = {}
    /\ products = {}
    /\ product_snapshots = {}
    /\ alert_records = {}
    /\ lastSelect = NoSelect
    /\ lastWebhook = NoWebhook
    /\ lastUpdate = NoUpdate

-----------------------------------------------------------------------------
(* Specifications of the report jobs *)

ReportIdle ==
    /\ report_jobs = <<>>
    /\ report_results = {}
    /\ report_tasks = <<>>
    /\ lastSubmit = NoSubmit

InitReport(delays) ==
    /\ now \in Instants(ReportSlots)
    /\ ReportIdle
    /\ hasRetryDelay \in delays
    /\ IngestIdle
    /\ EvalIdle

\* Submission: up to MaxJobs jobs and their tasks; the worker's calls do not raise
\* here (the except branch is not entered, so the runtime's get_retry_delay is not
\* looked at), the analysis and the generation can return nothing
NextSubmit ==
    \/ Submit(MaxJobs)
    \/ \E k \in DOMAIN report_tasks : WorkerBegin(k, {})
    \/ \E k \in DOMAIN report_tasks : WorkerGenerate(k, {})
    \/ \E k \in DOMAIN report_tasks : WorkerComplete(k, {})
    \/ \E k \in DOMAIN report_tasks : WorkerResultFailed(k, {})
    \/ \E k \in DOMAIN report_tasks : WorkerLost(k)
    \/ ReportTick

SpecSubmit == InitReport({TRUE}) /\ [][NextSubmit]_vars

\* Worker: up to MaxWorkerJobs jobs; every storage call of the worker can raise
NextWorker ==
    \/ Submit(MaxWorkerJobs)
    \/ \E k \in DOMAIN report_tasks : WorkerBegin(k, ExcTexts)
    \/ \E k \in DOMAIN report_tasks : WorkerGenerate(k, ExcTexts)
    \/ \E k \in DOMAIN report_tasks : WorkerComplete(k, ExcTexts)
    \/ \E k \in DOMAIN report_tasks : WorkerResultFailed(k, ExcTexts)
    \/ \E k \in DOMAIN report_tasks : WorkerExcept(k, ExcTexts)
    \/ \E k \in DOMAIN report_tasks : WorkerLost(k)
    \/ ReportTick

SpecWorker == InitReport(BOOLEAN) /\ [][NextWorker]_vars

\* Download: the worker with every storage call able to raise, and the downloads
NextDownload ==
    \/ NextWorker
    \/ Download

SpecDownload == InitReport(BOOLEAN) /\ [][NextDownload]_vars

\* a step of a worker that is not lost
WorkerStep ==
    \E k \in DOMAIN report_tasks :
        \/ WorkerBegin(k, ExcTexts)
        \/ WorkerGenerate(k, ExcTexts)
        \/ WorkerComplete(k, ExcTexts)
        \/ WorkerResultFailed(k, ExcTexts)
        \/ WorkerExcept(k, ExcTexts)

NextWorkerLive ==
    \/ Submit(MaxWorkerJobs)
    \/ WorkerStep
    \/ \E k \in DOMAIN report_tasks : WorkerTimeLimit(k)
    \/ ReportTick

\* the worker keeps running: it is never lost and a task that has a step to take
\* takes one
SpecWorkerLive ==
    /\ InitReport(BOOLEAN)
    /\ [][NextWorkerLive]_vars
    /\ WF_vars(WorkerStep)

\* Redelivery: one job, a worker whose storage calls do not raise and that can be
\* lost before the acknowledgement
NextRedelivery ==
    \/ Submit(MaxWorkerJobs)
    \/ \E k \in DOMAIN report_tasks : WorkerBegin(k, {})
    \/ \E k \in DOMAIN report_tasks : WorkerGenerate(k, {})
    \/ \E k \in DOMAIN report_tasks : WorkerComplete(k, {})
    \/ \E k \in DOMAIN report_tasks : WorkerResultFailed(k, {})
    \/ \E k \in DOMAIN report_tasks : WorkerLostBeforeAck(k)
    \/ ReportTick

SpecRedelivery == InitReport({TRUE}) /\ [][NextRedelivery]_vars

\* Posting: the endpoint with its request model, up to MaxJobs jobs, the worker
\* beginning its tasks, the clock
NextPost ==
    \/ Post(MaxJobs)
    \/ \E k \in DOMAIN report_tasks : WorkerBegin(k, {})
    \/ ReportTick

SpecPost == InitReport({TRUE}) /\ [][NextPost]_vars

-----------------------------------------------------------------------------
(* Specification of the identifier pipeline *)

InitIngest ==
    /\ now \in IngestInstants
    /\ ReportIdle
    /\ hasRetryDelay = TRUE
    /\ IngestIdle
    /\ EvalIdle

NextIngest ==
    \/ Schedule
    \/ Fetch(FetchOutcomes)
    \/ Webhook
    \/ IngestTick

SpecIngest == InitIngest /\ [][NextIngest]_vars

-----------------------------------------------------------------------------
(* Specification of the alert evaluator *)

InitEval ==
    /\ now = 0
    /\ ReportIdle
    /\ hasRetryDelay = TRUE
    /\ IngestIdle
    /\ \E latest, previous \in EvalPrices, list \in EvalRuleLists :
          \E stored \in SUBSET DOMAIN list :
          eval = [pc |-> "ready",
                  latest |-> EvalSnapshot(1, latest),
                  previous |-> EvalSnapshot(0, previous),
                  rules |-> RulesOf(list),
                  stored |-> stored,
                  events |-> <<>>]

\* one call of _check_price_alerts
CheckPriceAlerts ==
    /\ eval.pc = "ready"
    /\ eval' = [eval EXCEPT
                   !.pc = "done",
                   !.events = _check_price_alerts("a1", eval.latest, eval.previous,
                                                  eval.rules, eval.stored)]
    /\ UNCHANGED <<now, reportVars, ingestVars>>

NextEval == CheckPriceAlerts

SpecEval == InitEval /\ [][NextEval]_vars

-----------------------------------------------------------------------------
(* Specification of the dispatch *)

\* the webhook of a run that did not succeed
WebhookNotSucceeded ==
    \E batch \in runs :
        \E payload \in {p \in Payloads(batch) : ~IsSucceeded(p)} :
            process_amazon_webhook(batch, payload, FALSE, FALSE,
                                   [raisedAt |-> "none", rowFails |-> {}], TRUE)

\* the run of the provider ends and its webhook never reaches the handler
WebhookLost ==
    \E batch \in runs :
        /\ runs' = runs \ {batch}
        /\ lastSelect' = NoSelect
        /\ lastUpdate' = NoUpdate
        /\ lastWebhook' = NoWebhook
        /\ UNCHANGED <<now, asin_status, fetch_tasks, products, product_snapshots,
                       alert_records, reportVars, evalVars>>

-----------------------------------------------------------------------------
(* Specification of the snapshot history: deliveries of success webhooks, with the
   rows of product_snapshots told apart by their created_at.  The schema of the
   table is not in the repository: eval holds whether the storage enforces one row
   for an asin and a date. *)

MaxSnapshots == 4

SameKey(r, q) == r.asin = q.asin /\ r.snapshot_date = q.snapshot_date

\* bulk_create_snapshots, lines 183-223: every row gets its created_at (line 208)
\* and the rows are inserted in one statement, which raises as a whole when the
\* storage enforces uniqueness and a row repeats an asin and a date of the table or
\* of the statement
insert_snapshots(table, snapshots, unique, raises) ==
    LET prepared == SelectSeq(snapshots, HasAsin)
        stamped == {[asin |-> prepared[i].asin,
                     snapshot_date |-> prepared[i].snapshot_date,
                     price |-> prepared[i].price,
                     created_at |-> Cardinality(table) + i] : i \in DOMAIN prepared}
        repeated == \/ \E i \in DOMAIN prepared : \E q \in table : SameKey(prepared[i], q)
                    \/ \E i, j \in DOMAIN prepared : i # j /\ SameKey(prepared[i], prepared[j])
    IN
    IF snapshots = <<>> \/ prepared = <<>> THEN [success |-> TRUE, table |-> table]
    ELSE IF raises \/ (unique /\ repeated) THEN [success |-> FALSE, table |-> table]
    ELSE [success |-> TRUE, table |-> table \cup stamped]

\* the datasets delivered: one tracked asin, once or twice, or an asin nobody tracks
HistoryDatasets == {<<"a1">>, <<"a1", "a1">>, <<UnknownAsin>>}

\* the status upsert of a list that names an asin twice raises ("cannot affect row
\* a second time"), the rows are then updated one by one
HistoryFault(asins) ==
    IF \E i, j \in DOMAIN asins : i # j /\ asins[i] = asins[j]
    THEN [raisedAt |-> "upsert", rowFails |-> {}]
    ELSE [raisedAt |-> "none", rowFails |-> {}]

\* one delivery of the success webhook of a dataset: the first or a repeated one
Deliver ==
    \E asins \in HistoryDatasets, productsRaises, snapshotsRaises \in BOOLEAN :
        LET payload == [event_type |-> "ACTOR.RUN.SUCCEEDED", status |-> "SUCCEEDED",
                        asins |-> asins, invalid |-> FALSE]
            snapshots_result ==
                insert_snapshots(product_snapshots,
                                 SnapshotsData(DatasetItems(asins, FALSE, DateOf(now)),
                                               DateOf(now)),
                                 eval.unique, snapshotsRaises)
        IN
        /\ Cardinality(snapshots_result.table) <= MaxSnapshots
        /\ ingest_dataset(asins, payload, productsRaises, snapshotsRaises,
                          snapshots_result, HistoryFault(asins), TRUE)
        /\ lastSelect' = NoSelect
        /\ lastUpdate' = NoUpdate
        /\ UNCHANGED <<now, fetch_tasks, runs, reportVars, evalVars>>

InitHistory ==
    /\ now = 0
    /\ ReportIdle
    /\ hasRetryDelay = TRUE
    /\ IngestIdle
    /\ \E unique \in BOOLEAN : eval = [pc |-> "storage", unique |-> unique]

NextHistory ==
    \/ Deliver
    \/ IngestTick

SpecHistory == InitHistory /\ [][NextHistory]_vars

-----------------------------------------------------------------------------
(* Specification of the success webhooks by what their resource gives: a dataset id
   or none, a fetch of the dataset that raises or not, items or none *)

\* _process_successful_webhook, lines 131-149, that takes the items whether the
\* fetch raised or not
has_dataset_items_Unfetched(dataset_id, fetchRaises, dataset_items) ==
    dataset_id /\ dataset_items # <<>>

\* _process_successful_webhook, lines 131-149: the handler goes on to the writes
\* when the resource names a dataset, the fetch does not raise and gives items
has_dataset_items(dataset_id, fetchRaises, dataset_items) ==
    dataset_id /\ ~fetchRaises /\ dataset_items # <<>>

\* process_amazon_webhook for the success webhook of the run of a batch; lastSelect
\* records what the resource gave
WebhookResource ==
    \E batch \in runs, dataset_id, fetchRaises, snapshotsRaises \in BOOLEAN :
        \E asins \in {<<>>, batch} :
            LET payload == [event_type |-> "ACTOR.RUN.SUCCEEDED", status |-> "SUCCEEDED",
                            asins |-> asins, invalid |-> FALSE]
            IN
            /\ IF has_dataset_items(dataset_id, fetchRaises, asins)
               THEN _process_successful_webhook(batch, payload, FALSE, snapshotsRaises,
                                                [raisedAt |-> "none", rowFails |-> {}],
                                                TRUE)
               ELSE /\ lastWebhook' = [NoWebhook EXCEPT
                                          !.kind = "dropped",
                                          !.event_type = payload.event_type,
                                          !.status = payload.status,
                                          !.batch = batch]
                    /\ UNCHANGED <<asin_status, products, product_snapshots,
                                   alert_records>>
            /\ runs' = runs \ {batch}
            /\ lastSelect' = [kind |-> "resource", asins |-> asins,
                              dataset_id |-> dataset_id, fetch_raised |-> fetchRaises]
            /\ lastUpdate' = NoUpdate
            /\ UNCHANGED <<now, fetch_tasks, reportVars, evalVars>>

NextResource ==
    \/ Schedule
    \/ Fetch(FetchOutcomes)
    \/ WebhookResource
    \/ IngestTick

SpecResource == InitIngest /\ [][NextResource]_vars

-----------------------------------------------------------------------------
(* Specification of the fetch task and the webhook handler running side by side:
   a call of bulk_update_asin_status is two storage calls, the select of the
   rows and the upsert of the data prepared from them, and the fetch task asks
   the provider before it makes its call.  eval holds where the two are. *)

\* bulk_update_asin_status, lines 110-117: the retry_count of the rows of the asins
select_existing(store, asins) ==
    [a \in Range(asins) \cap DOMAIN store |-> store[a].retry_count]

\* bulk_update_asin_status, lines 119-158: the data prepared from the rows that
\* were read, upserted on the table as it is now
upsert_bulk_data(store, existing, status, task_timestamp) ==
    [a \in DOMAIN store |->
        IF a \in DOMAIN existing
        THEN [store[a] EXCEPT
                 !.status = status,
                 !.task_timestamp =
                     IF status = "running" /\ task_timestamp # Null
                     THEN task_timestamp ELSE @,
                 !.retry_count = IF status = "failed" THEN existing[a] + 1 ELSE @]
        ELSE store[a]]

NoCall ==
    [pc |-> "idle", asins |-> <<>>, status |-> "none", task_timestamp |-> Null,
     existing |-> <<>>, fresh |-> FALSE]

NoPair == [base |-> Null, left |-> Null]

\* the pair of calls followed: a call that reads for failed while the other has
\* read for failed and not written, the row being as the other read it
PairAtRead(call, other) ==
    IF /\ call.status = "failed"
       /\ other.pc = "read"
       /\ other.status = "failed"
       /\ other.asins = call.asins
       /\ \A a \in DOMAIN other.existing :
              asin_status[a].retry_count = other.existing[a]
    THEN [base |-> asin_status["a1"].retry_count, left |-> 2]
    ELSE IF eval.pair.left = 0 THEN NoPair ELSE eval.pair

PairAtWrite(call) ==
    IF eval.pair.left = 0 THEN NoPair
    ELSE IF eval.pair.left # Null /\ call.status = "failed"
    THEN [eval.pair EXCEPT !.left = @ - 1]
    ELSE eval.pair

RaceGhosts ==
    /\ lastSelect' = NoSelect
    /\ lastWebhook' = NoWebhook
    /\ lastUpdate' = NoUpdate

\* schedule_amazon_scraping, when the worker is not in a fetch task
RaceSchedule ==
    LET asins_to_scrape == get_asins_to_scrape(asin_status, now) IN
    /\ eval.fetch.pc = "idle"
    /\ fetch_tasks = {}
    /\ asins_to_scrape # <<>>
    /\ fetch_tasks' = {FetchTask(asins_to_scrape, 0, asin_status)}
    /\ RaceGhosts
    /\ UNCHANGED <<now, asin_status, runs, products, product_snapshots, alert_records,
                   reportVars, evalVars>>

\* fetch_amazon_products, lines 78-88: the provider is asked to start the run;
\* from here on the webhook of the run can come
FetchAsk ==
    \E task \in fetch_tasks, outcome \in FetchOutcomes :
        /\ eval.fetch.pc = "idle"
        /\ fetch_tasks' = fetch_tasks \ {task}
        /\ runs' = IF outcome = "started" THEN runs \cup {task.asins} ELSE runs
        /\ eval' = [eval EXCEPT
                        !.fetch = [pc |-> "asked", asins |-> task.asins,
                                   status |-> fetch_status(outcome),
                                   task_timestamp |-> Null, existing |-> <<>>,
                                   fresh |-> outcome = "started" /\ runs = {}],
                        !.marked = "none"]
        /\ RaceGhosts
        /\ UNCHANGED <<now, asin_status, products, product_snapshots, alert_records,
                       reportVars>>

\* fetch_amazon_products, lines 97-99 and 134: bulk_update_asin_status is called
\* and selects the rows
FetchRead ==
    /\ eval.fetch.pc = "asked"
    /\ eval' = [eval EXCEPT
                    !.fetch.pc = "read",
                    !.fetch.task_timestamp =
                        IF eval.fetch.status = "running" THEN now ELSE Null,
                    !.fetch.existing = select_existing(asin_status, eval.fetch.asins),
                    !.pair = PairAtRead(eval.fetch, eval.hook)]
    /\ RaceGhosts
    /\ UNCHANGED <<now, asin_status, fetch_tasks, runs, products, product_snapshots,
                   alert_records, reportVars>>

\* bulk_update_asin_status of the fetch task upserts its data and the task ends
FetchWrite ==
    LET call == eval.fetch
        store == upsert_bulk_data(asin_status, call.existing, call.status,
                                  call.task_timestamp)
    IN
    /\ call.pc = "read"
    /\ WithinRetryBound(store)
    /\ asin_status' = store
    /\ eval' = [eval EXCEPT !.fetch.pc = "idle", !.pair = PairAtWrite(call)]
    /\ RaceGhosts
    /\ UNCHANGED <<now, fetch_tasks, runs, products, product_snapshots, alert_records,
                   reportVars>>

\* _process_successful_webhook for the run of a batch, up to the select of
\* bulk_update_asin_status: catalog and snapshots are written, the rows are read
HookRead ==
    \E batch \in runs, productsRaises, snapshotsRaises \in BOOLEAN :
        LET dataset_items == DatasetItems(batch, FALSE, DateOf(now))
            products_result == bulk_update_products(products, dataset_items,
                                                    productsRaises)
            snapshots_result ==
                bulk_create_snapshots(product_snapshots,
                                      SnapshotsData(dataset_items, DateOf(now)),
                                      snapshotsRaises)
            call == [pc |-> "read", asins |-> AsinsOf(dataset_items),
                     status |-> IF products_result.success /\ snapshots_result.success
                                THEN "completed" ELSE "failed",
                     task_timestamp |-> Null,
                     existing |-> select_existing(asin_status, AsinsOf(dataset_items)),
                     fresh |-> eval.fetch.pc # "idle" /\ eval.fetch.fresh]
        IN
        /\ eval.hook.pc = "idle"
        /\ runs' = runs \ {batch}
        /\ products' = products_result.table
        /\ product_snapshots' = snapshots_result.table
        /\ eval' = [eval EXCEPT !.hook = call,
                                !.pair = PairAtRead(call, eval.fetch)]
        /\ RaceGhosts
        /\ UNCHANGED <<now, asin_status, fetch_tasks, alert_records, reportVars>>

\* _process_successful_webhook from the upsert of bulk_update_asin_status on: the
\* status is written and the alerts of a completed batch are evaluated
HookWrite ==
    LET call == eval.hook
        store == upsert_bulk_data(asin_status, call.existing, call.status, Null)
        evaluated == IF call.status = "completed" THEN call.asins ELSE <<>>
        events == UNION {Range(check_alerts_for_asin(
                                   product_snapshots, asin, ActiveRules,
                                   {ActiveRules[i].id : i \in DOMAIN ActiveRules},
                                   "none")) : asin \in Range(evaluated)}
    IN
    /\ call.pc = "read"
    /\ WithinRetryBound(store)
    /\ asin_status' = store
    /\ alert_records' = alert_records \cup events
    /\ eval' = [eval EXCEPT
                    !.hook.pc = "idle",
                    !.marked = IF call.fresh /\ eval.fetch.pc # "idle"
                               THEN call.status ELSE @,
                    !.pair = PairAtWrite(call)]
    /\ RaceGhosts
    /\ UNCHANGED <<now, fetch_tasks, runs, products, product_snapshots, reportVars>>

InitRace ==
    /\ now = 0
    /\ ReportIdle
    /\ hasRetryDelay = TRUE
    /\ IngestIdle
    /\ eval = [pc |-> "race", fetch |-> NoCall, hook |-> NoCall, marked |-> "none",
               pair |-> NoPair]

NextRace ==
    \/ RaceSchedule
    \/ FetchAsk
    \/ FetchRead
    \/ FetchWrite
    \/ HookRead
    \/ HookWrite
    \/ IngestTick

SpecRace == InitRace /\ [][NextRace]_vars

NextDispatch ==
    \/ Schedule
    \/ Fetch(DispatchOutcomes)
    \/ WebhookNotSucceeded
    \/ WebhookLost
    \/ IngestTick

SpecDispatch == InitIngest /\ [][NextDispatch]_vars

\* the last instant of the clock of the model
LastInstant == MaxDay * SecondsPerDay

\* the beat runs the scheduler again and again and its selection does not raise
\* for ever, the worker takes the fetch messages, every run of the provider ends,
\* and time passes
SpecReclaim ==
    /\ SpecDispatch
    /\ WF_vars(schedule_amazon_scraping(FALSE))
    /\ WF_vars(Fetch(DispatchOutcomes))
    /\ WF_vars(WebhookNotSucceeded \/ WebhookLost)
    /\ WF_vars(IngestTick)

-----------------------------------------------------------------------------
(* Specification of the status transitions *)

\* the statuses a caller can hand to bulk_update_asin_status: the valid ones and
\* one that is not
TransitionStatuses == valid_statuses \cup {"paused"}

\* the asin lists of a call: no asin twice
TransitionLists == {ListOf(S) : S \in SUBSET AllAsins} \cup {<<UnknownAsin, "a1">>}

\* the instants of the calls: two, so that a row can hold an older timestamp
TransitionInstants == {0, FiveMinutes}

InitTransition ==
    /\ now \in TransitionInstants
    /\ ReportIdle
    /\ hasRetryDelay = TRUE
    /\ IngestIdle
    /\ EvalIdle

\* one call of bulk_update_asin_status, with or without a task_timestamp
Transition ==
    \E asins \in TransitionLists, status \in TransitionStatuses,
       task_timestamp \in {Null, now} :
        \E fault \in UpdateFaults(asins, {"select", "upsert"}) :
            LET update == bulk_update_asin_status(asin_status, asins, status,
                                                  task_timestamp, fault.raisedAt,
                                                  fault.rowFails)
            IN
            /\ WithinRetryBound(update.store)
            /\ asin_status' = update.store
            /\ lastUpdate' = [kind |-> "updated", asins |-> asins, status |-> status,
                              task_timestamp |-> task_timestamp,
                              raisedAt |-> fault.raisedAt,
                              successful_asins |-> update.successful_asins,
                              failed_asins |-> update.failed_asins,
                              success |-> update.success,
                              before |-> asin_status]
            /\ lastSelect' = NoSelect
            /\ lastWebhook' = NoWebhook
            /\ UNCHANGED <<now, fetch_tasks, runs, products, product_snapshots,
                           alert_records, reportVars, evalVars>>

\* time passes between two calls
TransitionTick ==
    /\ Tick(TransitionInstants)
    /\ lastSelect' = NoSelect
    /\ lastWebhook' = NoWebhook
    /\ lastUpdate' = NoUpdate
    /\ UNCHANGED <<asin_status, fetch_tasks, runs, products, product_snapshots,
                   alert_records, reportVars, evalVars>>

NextTransition ==
    \/ Transition
    \/ TransitionTick

SpecTransition == InitTransition /\ [][NextTransition]_vars

-----------------------------------------------------------------------------
(* Specification of the selection *)

\* the rows of the store
SelectAsins == {"a1", "a2"}

\* the limits of a selection
SelectLimits == 1..MaxLimit

InitSelect ==
    /\ now \in IngestInstants
    /\ ReportIdle
    /\ hasRetryDelay = TRUE
    /\ asin_status = [a \in SelectAsins |-> NewAsinRow]
    /\ fetch_tasks = {}
    /\ runs = {}
    /\ products = {}
    /\ product_snapshots = {}
    /\ alert_records = {}
    /\ lastSelect = NoSelect
    /\ lastWebhook = NoWebhook
    /\ lastUpdate = NoUpdate
    /\ EvalIdle

\* get_pending_asins(limit); a selection that raises gives the empty list
Select ==
    \E limit \in SelectLimits, selectRaises \in BOOLEAN :
        \E asins \in IF selectRaises THEN {<<>>}
                     ELSE get_pending_asins(asin_status, now, limit) :
            /\ lastSelect' = [kind |-> IF selectRaises THEN "raised" ELSE "selected",
                              asins |-> asins, limit |-> limit]
            /\ lastUpdate' = NoUpdate
            /\ lastWebhook' = NoWebhook
            /\ UNCHANGED <<now, asin_status, fetch_tasks, runs, products,
                           product_snapshots, alert_records, reportVars, evalVars>>

\* the transitions the callers make: the fetch task to running with the current
\* time or to failed, the webhook to completed or to failed
CallerTransition ==
    \E a \in SelectAsins, status \in {"running", "completed", "failed"} :
        LET update == bulk_update_asin_status(asin_status, <<a>>, status,
                                              IF status = "running" THEN now ELSE Null,
                                              "none", {})
        IN
        /\ WithinRetryBound(update.store)
        /\ asin_status' = update.store
        /\ lastSelect' = NoSelect
        /\ lastUpdate' = NoUpdate
        /\ lastWebhook' = NoWebhook
        /\ UNCHANGED <<now, fetch_tasks, runs, products, product_snapshots,
                       alert_records, reportVars, evalVars>>

NextSelect ==
    \/ Select
    \/ CallerTransition
    \/ IngestTick

SpecSelect == InitSelect /\ [][NextSelect]_vars

-----------------------------------------------------------------------------
(* Specification of the trigger predicate *)

TriggerDirections == {"increase", "decrease", "any", "none"}
TriggerThresholds == {0, 2, 20}
TriggerThresholdTypes == {"percentage", "absolute"}

\* change values: num / den
TriggerChanges ==
    {[num |-> n, den |-> d] : n \in {0 - 61, 0 - 60, 0 - 20, 0 - 2, 0, 2, 20, 60, 61},
                              d \in {1, 3}}

InitTrigger ==
    /\ now = 0
    /\ ReportIdle
    /\ hasRetryDelay = TRUE
    /\ IngestIdle
    /\ \E change_direction \in TriggerDirections, threshold \in TriggerThresholds,
          threshold_type \in TriggerThresholdTypes, change_value \in TriggerChanges :
          eval = [pc |-> "ready",
                  rule |-> [id |-> 1, rule_type |-> "price_change",
                            threshold |-> threshold,
                            change_direction |-> change_direction,
                            threshold_type |-> threshold_type],
                  change_value |-> change_value,
                  result |-> FALSE]

\* one call of _should_trigger_alert
ShouldTrigger ==
    /\ eval.pc = "ready"
    /\ eval' = [eval EXCEPT
                   !.pc = "done",
                   !.result = _should_trigger_alert(eval.rule, eval.change_value)]
    /\ UNCHANGED <<now, reportVars, ingestVars>>

NextTrigger == ShouldTrigger

SpecTrigger == InitTrigger /\ [][NextTrigger]_vars

-----------------------------------------------------------------------------
(* Specification of the parameter hash: generate_parameters_hash on parameter
   objects with a nested object *)

\* JSON values: a string, a number, a list of strings, an object written as the
\* sequence of its members in insertion order
Str(s) == [t |-> "str", v |-> s]
Num(n) == [t |-> "int", v |-> n]
List(l) == [t |-> "list", v |-> l]
Obj(members) == [t |-> "obj", v |-> members]

\* the keys of the objects of the model, in the order of Python's string comparison
HashKeys == <<"brand", "category", "competitor_asins", "filters", "window_size">>

RECURSIVE MembersFrom(_, _)
MembersFrom(members, i) ==
    IF i > Len(HashKeys) THEN <<>>
    ELSE SelectSeq(members, LAMBDA m : m[1] = HashKeys[i]) \o MembersFrom(members, i + 1)

\* sort_keys left out: the members as they were inserted
sort_keys_AsWritten(members) == members

\* sort_keys=True: the members of an object in the order of their keys
sort_keys(members) == MembersFrom(members, 1)

\* json.dumps(parameters, sort_keys=True, ensure_ascii=False): the text, given by
\* its structure; the objects of every level are written with sorted keys, a list
\* keeps its order
RECURSIVE json_dumps(_)
json_dumps(value) ==
    IF value.t = "obj"
    THEN Obj(sort_keys([i \in DOMAIN value.v |->
                           <<value.v[i][1], json_dumps(value.v[i][2])>>]))
    ELSE value

\* hashlib.sha256(text).hexdigest(), taken to be injective
hexdigest(parameters) == json_dumps(parameters)

\* all orders of three members
Orders3 == {o \in [1..3 -> 1..3] : \A i, j \in 1..3 : o[i] = o[j] => i = j}

\* the nested objects as written: one or two members, in both orders
WrittenFilters ==
    { << <<"brand", Str(b)>> >> : b \in {"x", "y"} }
        \cup { << <<"brand", Str(b)>>, <<"category", Str("c")>> >> : b \in {"x", "y"} }
        \cup { << <<"category", Str("c")>>, <<"brand", Str(b)>> >> : b \in {"x", "y"} }

\* the parameter objects as written: a list in two orders, a number or its text,
\* a nested object, in every order of the three members
WrittenParameters ==
    { Obj([i \in 1..3 |-> members[o[i]]]) :
        o \in Orders3,
        members \in { << <<"competitor_asins", List(l)>>, <<"window_size", w>>,
                         <<"filters", Obj(f)>> >> :
                          l \in { <<"B", "C">>, <<"C", "B">> },
                          w \in {Num(7), Str("7")},
                          f \in WrittenFilters } }

InitHash ==
    /\ now = 0
    /\ ReportIdle
    /\ hasRetryDelay = TRUE
    /\ IngestIdle
    /\ \E p \in WrittenParameters, q \in WrittenParameters :
          eval = [pc |-> "ready", p |-> p, q |-> q, hash_p |-> <<>>, hash_q |-> <<>>]

\* generate_parameters_hash of the two objects
Hash ==
    /\ eval.pc = "ready"
    /\ eval' = [eval EXCEPT !.pc = "done",
                            !.hash_p = hexdigest(eval.p),
                            !.hash_q = hexdigest(eval.q)]
    /\ UNCHANGED <<now, reportVars, ingestVars>>

NextHash == Hash

SpecHash == InitHash /\ [][NextHash]_vars

-----------------------------------------------------------------------------
(* Specification of the evaluator with the rules of every type *)

MaxRuleList == 2

RulePrices == {Null, 0, 10, 12}
RuleRatings == {Null, 3, 5}
RuleThresholds == {2, 20}
RuleDirections == {"increase", "decrease"}
RuleTypes == {"price_change", "bsr_change", "rating_change", "review_change"}

\* ranking lists: none, one without rank, rank 0, one ranking, two rankings
RuleBsrData ==
    {<<>>, <<[rank |-> Null]>>, <<[rank |-> 0]>>, <<[rank |-> 1000]>>,
     <<[rank |-> 1500], [rank |-> 7]>>}

RuleSnapshot(date, price, bsr_data, rating) ==
    [asin |-> "a1", snapshot_date |-> date, price |-> price, bsr_data |-> bsr_data,
     rating |-> rating]

\* the pairs <<latest, previous>>: one metric known at a time, or all of them
RuleSnapshotPairs ==
    {<<RuleSnapshot(1, l, <<>>, Null), RuleSnapshot(0, p, <<>>, Null)>> :
        l, p \in RulePrices}
    \cup {<<RuleSnapshot(1, Null, l, Null), RuleSnapshot(0, Null, p, Null)>> :
             l, p \in RuleBsrData}
    \cup {<<RuleSnapshot(1, Null, <<>>, l), RuleSnapshot(0, Null, <<>>, p)>> :
             l, p \in RuleRatings}
    \cup {<<RuleSnapshot(1, 12, <<[rank |-> 1000]>>, 5),
            RuleSnapshot(0, 10, <<[rank |-> 1500], [rank |-> 7]>>, 3)>>,
          <<RuleSnapshot(1, 10, <<[rank |-> 1500], [rank |-> 7]>>, 3),
            RuleSnapshot(0, 12, <<[rank |-> 1000]>>, 5)>>}

RuleRows ==
    {[rule_type |-> rule_type, threshold |-> threshold,
      change_direction |-> change_direction, threshold_type |-> threshold_type] :
        rule_type \in RuleTypes, threshold \in RuleThresholds,
        change_direction \in RuleDirections, threshold_type \in TriggerThresholdTypes}

\* the rule lists: the rule at position i has id i
RuleLists == UNION {[1..n -> RuleRows] : n \in 1..MaxRuleList}

WithIds(list) ==
    [i \in DOMAIN list |->
        [id |-> i, rule_type |-> list[i].rule_type, threshold |-> list[i].threshold,
         change_direction |-> list[i].change_direction,
         threshold_type |-> list[i].threshold_type]]

InitRules ==
    /\ now = 0
    /\ ReportIdle
    /\ hasRetryDelay = TRUE
    /\ IngestIdle
    /\ \E pair \in RuleSnapshotPairs, list \in RuleLists :
          \E stored \in SUBSET DOMAIN list :
          eval = [pc |-> "ready",
                  latest |-> pair[1],
                  previous |-> pair[2],
                  rules |-> WithIds(list),
                  stored |-> stored,
                  events |-> <<>>]

\* check_alerts_for_asin from the snapshots and the rules it has read
CheckAlerts ==
    /\ eval.pc = "ready"
    /\ eval' = [eval EXCEPT
                   !.pc = "done",
                   !.events = triggered_alerts("a1", eval.latest, eval.previous,
                                               eval.rules, eval.stored)]
    /\ UNCHANGED <<now, reportVars, ingestVars>>

NextRules == CheckAlerts

SpecRules == InitRules /\ [][NextRules]_vars

-----------------------------------------------------------------------------
(* Webhook endpoint: apps/api_service/routers/webhooks.py, and the response of
   WebhookService.process_amazon_webhook *)

\* what the ingestion of the dataset of a succeeded run comes to: no dataset id
\* or no collector, the fetch from the provider raises, no item, both writes
\* made, a write failed
Ingestions == {"no_dataset", "raises", "empty", "completed", "failed"}

\* a body that is not UTF-8, or is no JSON, or is a JSON value that is no object
PlainBody(utf8, json, dict) ==
    [utf8 |-> utf8, json |-> json, dict |-> dict, eventType |-> "none",
     eventData |-> "missing", resource |-> "missing", ingestion |-> "no_dataset"]

\* the request bodies: the JSON objects with or without eventType, with an
\* eventData and a resource that are missing, an object, or another JSON value,
\* and the bodies that are no JSON object
WebhookRequests ==
    {PlainBody(FALSE, FALSE, FALSE), PlainBody(TRUE, FALSE, FALSE),
     PlainBody(TRUE, TRUE, FALSE)}
        \cup [utf8 : {TRUE}, json : {TRUE}, dict : {TRUE},
              eventType : EventTypes \cup {"none"},
              eventData : {"missing", "dict", "other"},
              resource : ResourceStatuses \cup {"missing", "other"},
              ingestion : Ingestions]

\* _process_successful_webhook, its return value: {} or the counts of the writes
IngestionSummary(ingestion) ==
    IF ingestion \in {"completed", "failed"} THEN ingestion ELSE "none"

\* process_amazon_webhook, its return value: the exceptions of the handling end
\* in the summary with status error
response_data(request) ==
    LET received == [status |-> "success", event_type |-> "none",
                     processed |-> FALSE, result |-> "none"]
        typed == [received EXCEPT
                     !.event_type = request.eventType,
                     !.processed = request.eventType = "ACTOR.RUN.SUCCEEDED"]
    IN
    IF ~request.dict THEN received
    ELSE IF request.eventData = "other" \/ request.resource = "other"
    THEN [typed EXCEPT !.status = "error"]
    ELSE IF /\ request.resource \in ResourceStatuses
            /\ IsSucceeded([event_type |-> request.eventType, status |-> request.resource])
    THEN [typed EXCEPT !.result = IngestionSummary(request.ingestion)]
    ELSE typed

\* webhook_amazon_products: json.loads raises JSONDecodeError for a text that is
\* no JSON, which the endpoint catches, and UnicodeDecodeError for bytes that are
\* not UTF-8, which ends in HTTPException(500)
webhook_amazon_products(request) ==
    IF ~request.utf8
    THEN [status_code |-> 500, body |-> [status |-> "http_error"]]
    ELSE [status_code |-> 200, body |-> response_data(request)]

\* one POST on /webhook/amazon-products, seen from the caller
Receive ==
    /\ \E request \in WebhookRequests :
          lastWebhook' = [kind |-> "answered", request |-> request,
                          response |-> webhook_amazon_products(request)]
    /\ lastSelect' = NoSelect
    /\ lastUpdate' = NoUpdate
    /\ UNCHANGED <<now, asin_status, fetch_tasks, runs, products, product_snapshots,
                   alert_records, reportVars, evalVars>>

NextEndpoint == Receive

SpecEndpoint == InitIngest /\ [][NextEndpoint]_vars

-----------------------------------------------------------------------------
(* Specification of the evaluation of a batch *)

\* the asins of a batch the webhook handler has ingested
BatchAsins == <<"a1", "a2">>

\* the snapshots of an asin: none, the one of today, or that and the one of the
\* day before with a price that has dropped since
BatchSnapshots(asin) ==
    {{}, {[asin |-> asin, snapshot_date |-> 1, price |-> PriceOn(1)]},
     {[asin |-> asin, snapshot_date |-> d, price |-> PriceOn(d)] : d \in {0, 1}}}

InitBatch ==
    /\ now = SecondsPerDay
    /\ ReportIdle
    /\ hasRetryDelay = TRUE
    /\ asin_status \in [Range(BatchAsins) ->
                           {[NewAsinRow EXCEPT !.status = st, !.task_timestamp = 0] :
                               st \in {"completed", "running"}}]
    /\ fetch_tasks = {}
    /\ runs = {}
    /\ products = Range(BatchAsins)
    /\ \E s1 \in BatchSnapshots("a1"), s2 \in BatchSnapshots("a2") :
          product_snapshots = s1 \cup s2
    /\ alert_records = {}
    /\ lastSelect = NoSelect
    /\ lastWebhook = NoWebhook
    /\ lastUpdate = NoUpdate
    /\ \E faults \in [Range(BatchAsins) -> EvalFaults], stored \in BOOLEAN :
          eval = [pc |-> "ready", faults |-> faults,
                  stored |-> IF stored THEN {ActiveRules[i].id : i \in DOMAIN ActiveRules}
                             ELSE {},
                  statuses |-> asin_status,
                  results |-> <<>>]

\* one call of check_alerts_for_asins
CheckBatch ==
    /\ eval.pc = "ready"
    /\ eval' = [eval EXCEPT
                   !.pc = "done",
                   !.results = check_alerts_for_asins(product_snapshots, BatchAsins,
                                                      ActiveRules, eval.stored,
                                                      eval.faults)]
    /\ UNCHANGED <<now, reportVars, ingestVars>>

NextBatch == CheckBatch

SpecBatch == InitBatch /\ [][NextBatch]_vars

-----------------------------------------------------------------------------
(* Properties of the report jobs *)

SecondOfDay(t) == t % SecondsPerDay

\* the completed jobs with the hash of the last submission, created on the day of
\* that submission
CompletedToday ==
    {j \in DOMAIN report_jobs :
        /\ report_jobs[j].parameters_hash = lastSubmit.hash
        /\ report_jobs[j].status = "completed"
        /\ DateOf(report_jobs[j].created_at) = DateOf(now)}

\* C1: a submission whose parameters are those of a completed job J created the
\* same day creates no job and returns J with existing = true (here for every
\* submission whose lookup query did not raise).
C1_SameDayIdempotent ==
    (lastSubmit.kind \in {"existing", "created", "error"} /\ ~lastSubmit.lookup_raised)
        => \A j \in CompletedToday :
              /\ lastSubmit.kind = "existing"
              /\ lastSubmit.existing
              /\ lastSubmit.job_id = j

\* C1, the case reached: a second submission of the parameters of a completed job
\* on its day, in another key order, answered with that job
C1_Reached ==
    /\ lastSubmit.kind = "existing"
    /\ lastSubmit.job_id \in CompletedToday

SameHashSameDay(j1, j2) ==
    /\ j1 # j2
    /\ report_jobs[j1].parameters_hash = report_jobs[j2].parameters_hash
    /\ DateOf(report_jobs[j1].created_at) = DateOf(report_jobs[j2].created_at)

\* C2 as stated: for each hash at most one completed job per day of creation
C2_AtMostOneCompleted ==
    \A j1, j2 \in DOMAIN report_jobs :
        (SameHashSameDay(j1, j2) /\ report_jobs[j1].status = "completed")
            => report_jobs[j2].status # "completed"

\* C2: two completed jobs with the same hash created the same day exist only if
\* the later one was created by a submission whose lookup could not return the
\* earlier one: the earlier one was not completed yet (or the lookup raised), or it
\* was created in the last second of the day.
C2_OneCompletedPerLookup ==
    \A j1, j2 \in DOMAIN report_jobs :
        (/\ j1 < j2
         /\ SameHashSameDay(j1, j2)
         /\ report_jobs[j1].status = "completed"
         /\ report_jobs[j2].status = "completed")
            => \/ j1 \notin report_jobs[j2].seen_completed
               \/ SecondOfDay(report_jobs[j1].created_at) >= LastSecondOfDay

\* C2, the case reached: two submissions of the same parameters before the first
\* job completed, both jobs completed
C2_TwoCompleted ==
    \E j1, j2 \in DOMAIN report_jobs :
        /\ j1 < j2
        /\ SameHashSameDay(j1, j2)
        /\ report_jobs[j1].status = "completed"
        /\ report_jobs[j2].status = "completed"
        /\ SecondOfDay(report_jobs[j1].created_at) < LastSecondOfDay

JobOf(k) == report_jobs[report_tasks[k].job_id]

\* C3: a job that failed because a generation attempt raised has used up its
\* retries, and its error message carries the text of the last exception.
C3_FailedOnlyWhenExhausted ==
    \A k \in DOMAIN report_tasks :
        (JobOf(k).status = "failed" /\ JobOf(k).error_message.exc # "none")
            => /\ report_tasks[k].retries = max_retries
               /\ JobOf(k).error_message.exc = report_tasks[k].exc

\* C4: while retries remain, a job whose attempt ended in an exception is not
\* failed; a task waiting for its next attempt leaves the job running with the
\* attempt counter in the error message.
C4_RetriedWhileRetriesRemain ==
    \A k \in DOMAIN report_tasks :
        (report_tasks[k].exc # "none" /\ report_tasks[k].retries < max_retries)
            => /\ JobOf(k).status # "failed"
               /\ (report_tasks[k].pc = "queued" /\ report_tasks[k].retries > 0)
                     => /\ JobOf(k).status = "running"
                        /\ JobOf(k).error_message.kind = "retrying"
                        /\ JobOf(k).error_message.attempt = report_tasks[k].retries

-----------------------------------------------------------------------------
(* Properties of the identifier pipeline *)

\* C5: a selection never returns an asin that is running with a task_timestamp
\* within the five minutes before the selection.
C5_FreshRunningNotSelected ==
    lastSelect.kind = "selected" =>
        \A a \in Range(lastSelect.asins) :
            ~(/\ asin_status[a].status = "running"
              /\ asin_status[a].task_timestamp # Null
              /\ asin_status[a].task_timestamp >= now - FiveMinutes)

\* C5, the case reached: a selection made exactly five minutes after an asin was
\* put in running, which leaves it out
C5_SelectedAtFiveMinutes ==
    /\ lastSelect.kind = "selected"
    /\ \E a \in DOMAIN asin_status :
          /\ asin_status[a].status = "running"
          /\ asin_status[a].task_timestamp = now - FiveMinutes
          /\ a \notin Range(lastSelect.asins)

WritesSucceeded == lastWebhook.products_success /\ lastWebhook.snapshots_success

\* C6 as stated: after a success webhook every asin of the batch given to the
\* provider is completed if both writes succeeded and failed with one more retry
\* otherwise, and none is left running.
C6_BatchAllOrNothing ==
    lastWebhook.kind = "ingested" =>
        \A a \in Range(lastWebhook.batch) :
            /\ asin_status[a].status # "running"
            /\ WritesSucceeded => asin_status[a].status = "completed"
            /\ ~WritesSucceeded =>
                  /\ asin_status[a].status = "failed"
                  /\ asin_status[a].retry_count = lastWebhook.before[a].retry_count + 1

\* C6: the transition is all-or-nothing over the asins of the fetched dataset: the
\* target is completed if both writes succeeded and failed otherwise; every asin of
\* the dataset that the status update does not report as failed gets the target
\* status (with one more retry for failed); every other row, an asin of the batch
\* that has no item in the dataset included, is left as it was.
C6_DatasetAllOrNothing ==
    lastWebhook.kind = "ingested" =>
        /\ lastWebhook.target = IF WritesSucceeded THEN "completed" ELSE "failed"
        /\ \A a \in DOMAIN asin_status :
              IF a \in Range(lastWebhook.asins) /\ a \notin Range(lastWebhook.failed_asins)
              THEN /\ a \in Range(lastWebhook.successful_asins)
                   /\ asin_status[a].status = lastWebhook.target
                   /\ asin_status[a].task_timestamp = lastWebhook.before[a].task_timestamp
                   /\ asin_status[a].retry_count =
                          lastWebhook.before[a].retry_count
                              + (IF lastWebhook.target = "failed" THEN 1 ELSE 0)
              ELSE asin_status[a] = lastWebhook.before[a]

\* C6, the case reached: a failed write, the asin of the dataset failed with one
\* more retry
C6_DatasetFailed ==
    /\ lastWebhook.kind = "ingested"
    /\ ~WritesSucceeded
    /\ \E a \in Range(lastWebhook.successful_asins) :
          /\ asin_status[a].status = "failed"
          /\ asin_status[a].retry_count = lastWebhook.before[a].retry_count + 1

C8_AlertsOnlyForCompleted ==
    /\ lastWebhook.kind = "ingested" =>
          \A a \in Range(lastWebhook.evaluated) :
              /\ a \in Range(lastWebhook.successful_asins)
              /\ a \notin Range(lastWebhook.failed_asins)
    /\ \A r \in alert_records : r.asin \in DOMAIN asin_status

IndexOf(s, x) == IF x \in Range(s) THEN CHOOSE i \in DOMAIN s : s[i] = x ELSE 0

Precedes(s, x, y) == (x \in Range(s) /\ y \in Range(s)) => IndexOf(s, x) < IndexOf(s, y)

\* C9: the steps of one ingestion are ordered (catalog write, snapshot write,
\* status transition, alert evaluation) and each is made only if the one before it
\* succeeded: no snapshot write after a failed catalog write, no alert evaluation
\* after a status transition that reported a failure.
C9_StepsOrderedAndGated ==
    lastWebhook.kind = "ingested" =>
        /\ Precedes(lastWebhook.steps, "products", "snapshots")
        /\ Precedes(lastWebhook.steps, "products", "status")
        /\ Precedes(lastWebhook.steps, "status", "alerts")
        /\ ~lastWebhook.products_success => "snapshots" \notin Range(lastWebhook.steps)
        /\ lastWebhook.failed_asins # <<>> => "alerts" \notin Range(lastWebhook.steps)

-----------------------------------------------------------------------------
(* Properties of the alert evaluator *)

EventsOfRule(id) == {i \in DOMAIN eval.events : eval.events[i].rule_id = id}

\* an event records the change (latest - previous) / previous * 100 rounded to
\* hundredths; previous > 0
RecordsChange(event, latest, previous) ==
    2 * Abs(event.change_percent * previous - (latest - previous) * 10000) <= previous

-----------------------------------------------------------------------------
(* Properties of the evaluator with the rules of every type *)

TypeOfEvent(i) == eval.rules[eval.events[i].rule_id].rule_type

EventsOfType(rule_type) == {i \in DOMAIN eval.events : TypeOfEvent(i) = rule_type}

\* the first ranking of an observation gives no rank to compare
NoMainRank(bsr_data) == bsr_data = <<>> \/ Head(bsr_data).rank = Null

\* an event records the change (previous - latest) / previous * 100 of a rank,
\* rounded to hundredths; previous > 0
RecordsRankChange(event, latest, previous) ==
    2 * Abs(event.change_percent * previous - (previous - latest) * 10000) <= previous

\* C11: the events of the rank rules record changePercent = (previous.rank -
\* latest.rank) / previous.rank * 100 of the first ranking of each observation,
\* positive for a lower latest rank and negative for a higher one; a rank rule
\* with direction increase and threshold T whose record is stored has an event iff
\* that change is >= T; if an observation has no ranking, a first rank is missing
\* or the previous rank is 0, no rank rule has an event; previous 1500, latest
\* 1000 and an increase rule with threshold 20 whose record is stored give an
\* event with changePercent 33.33.
C11_RankChange ==
    eval.pc = "done" =>
        LET skipped == \/ NoMainRank(eval.latest.bsr_data)
                       \/ NoMainRank(eval.previous.bsr_data)
                       \/ Head(eval.previous.bsr_data).rank = 0
        IN
        /\ skipped => EventsOfType("bsr_change") = {}
        /\ ~skipped =>
              LET latest == Head(eval.latest.bsr_data).rank
                  previous == Head(eval.previous.bsr_data).rank
              IN
              /\ \A i \in EventsOfType("bsr_change") :
                    /\ RecordsRankChange(eval.events[i], latest, previous)
                    /\ eval.events[i].current_value = latest
                    /\ eval.events[i].previous_value = previous
                    /\ latest < previous => eval.events[i].change_percent > 0
                    /\ latest > previous => eval.events[i].change_percent < 0
              /\ \A id \in DOMAIN eval.rules :
                    (/\ eval.rules[id].rule_type = "bsr_change"
                     /\ eval.rules[id].change_direction = "increase"
                     /\ id \in eval.stored)
                        => (EventsOfRule(id) # {}
                               <=> (previous - latest) * 100
                                       >= eval.rules[id].threshold * previous)
              /\ (latest = 1000 /\ previous = 1500) =>
                    \A id \in DOMAIN eval.rules :
                        (/\ eval.rules[id].rule_type = "bsr_change"
                         /\ eval.rules[id].change_direction = "increase"
                         /\ eval.rules[id].threshold = 20
                         /\ id \in eval.stored)
                            => \E i \in EventsOfRule(id) :
                                  eval.events[i].change_percent = 3333

\* C11, the case reached: the rank went from 1500 (the first of two rankings) to
\* 1000 and an increase rule with threshold 20 has its event, with 33.33
C11_RankImproved ==
    /\ eval.pc = "done"
    /\ Len(eval.previous.bsr_data) = 2
    /\ \E i \in EventsOfType("bsr_change") :
          /\ eval.events[i].previous_value = 1500
          /\ eval.events[i].current_value = 1000
          /\ eval.events[i].change_percent = 3333
          /\ eval.rules[eval.events[i].rule_id].change_direction = "increase"
          /\ eval.rules[eval.events[i].rule_id].threshold = 20

\* C12: the trigger predicate follows the direction of the rule, for every change
\* value c and threshold t: increase triggers iff c >= t, decrease iff c <= -t,
\* any iff |c| >= t, and a rule with another direction never triggers.
C12_TriggerByDirection ==
    eval.pc = "done" =>
        LET c == eval.change_value
            t == eval.rule.threshold
            direction == eval.rule.change_direction
        IN
        /\ direction = "increase" => (eval.result <=> c.num >= t * c.den)
        /\ direction = "decrease" => (eval.result <=> c.num <= (0 - t) * c.den)
        /\ direction = "any" => (eval.result <=> Abs(c.num) >= t * c.den)
        /\ direction \notin {"increase", "decrease", "any"} => ~eval.result

\* C12, the case reached: a rule with direction any and threshold 20 triggers on
\* the change -20
C12_AnyOnNegativeChange ==
    /\ eval.pc = "done"
    /\ eval.rule.change_direction = "any"
    /\ eval.rule.threshold = 20
    /\ eval.change_value = [num |-> 0 - 20, den |-> 1]
    /\ eval.result

\* C13: the change compared with the threshold of a price rule is chosen by the
\* threshold_type of the rule: with both prices known and the previous price not
\* 0, an increase rule whose record is stored has an event iff the percentage
\* change is >= T when the type is percentage, and iff the difference latest -
\* previous is >= T when the type is absolute.
C13_ChangeByThresholdType ==
    eval.pc = "done" =>
        LET latest == eval.latest.price
            previous == eval.previous.price
        IN
        (latest # Null /\ previous # Null /\ previous # 0) =>
            \A id \in DOMAIN eval.rules :
                (/\ eval.rules[id].rule_type = "price_change"
                 /\ eval.rules[id].change_direction = "increase"
                 /\ id \in eval.stored)
                    => IF eval.rules[id].threshold_type = "percentage"
                       THEN EventsOfRule(id) # {}
                               <=> (latest - previous) * 100
                                       >= eval.rules[id].threshold * previous
                       ELSE EventsOfRule(id) # {}
                               <=> latest - previous >= eval.rules[id].threshold

\* the trigger predicate on the change n / d (d > 0) for a direction and threshold
Triggers(direction, n, d, threshold) ==
    \/ direction = "increase" /\ n >= threshold * d
    \/ direction = "decrease" /\ n <= (0 - threshold) * d
    \/ direction = "any" /\ Abs(n) >= threshold * d

\* the trigger predicate of a rule holds on the change of the metric of its type
\* between eval.previous and eval.latest (the prices and ranks here are >= 0)
PredicateHolds(rule) ==
    IF rule.rule_type = "price_change"
    THEN /\ eval.latest.price # Null
         /\ eval.previous.price # Null
         /\ eval.previous.price # 0
         /\ Triggers(rule.change_direction,
                     (eval.latest.price - eval.previous.price) * 100,
                     eval.previous.price, rule.threshold)
    ELSE IF rule.rule_type = "bsr_change"
    THEN /\ ~NoMainRank(eval.latest.bsr_data)
         /\ ~NoMainRank(eval.previous.bsr_data)
         /\ Head(eval.previous.bsr_data).rank # 0
         /\ Triggers(rule.change_direction,
                     (Head(eval.previous.bsr_data).rank
                         - Head(eval.latest.bsr_data).rank) * 100,
                     Head(eval.previous.bsr_data).rank, rule.threshold)
    ELSE IF rule.rule_type = "rating_change"
    THEN /\ eval.latest.rating # Null
         /\ eval.previous.rating # Null
         /\ Triggers(rule.change_direction,
                     eval.latest.rating - eval.previous.rating, 1, rule.threshold)
    ELSE FALSE

\* the ids of the rules of a type whose predicate holds, in the order of the rule
\* list; with mustStore only those whose alert record is stored
IdsOfType(rule_type, mustStore) ==
    LET Wanted(id) == /\ eval.rules[id].rule_type = rule_type
                      /\ PredicateHolds(eval.rules[id])
                      /\ mustStore => id \in eval.stored
    IN SelectSeq([i \in DOMAIN eval.rules |-> i], Wanted)

EventRuleIds == [i \in DOMAIN eval.events |-> eval.events[i].rule_id]

-----------------------------------------------------------------------------
(* Properties of the status transitions *)

\* the last call of bulk_update_asin_status transitioned the asin to the status
TransitionedTo(a, status) ==
    /\ lastUpdate.kind = "updated"
    /\ lastUpdate.status = status
    /\ a \in Range(lastUpdate.successful_asins)

\* C15: a call of the transition raises retry_count by exactly 1 for every asin it
\* transitions to failed and leaves the retry_count of every other row as it was:
\* rows transitioned to pending, running or completed, rows whose update failed,
\* rows not in the list.
C15_RetryCountOnlyOnFailed ==
    lastUpdate.kind = "updated" =>
        \A a \in DOMAIN asin_status :
            /\ a \in DOMAIN lastUpdate.before
            /\ asin_status[a].retry_count =
                   lastUpdate.before[a].retry_count
                       + (IF TransitionedTo(a, "failed") THEN 1 ELSE 0)

\* C15, the case reached: a second transition to failed, made row by row after
\* the bulk update raised, takes retry_count from 1 to 2
C15_FailedAgain ==
    /\ TransitionedTo("a1", "failed")
    /\ lastUpdate.raisedAt = "upsert"
    /\ lastUpdate.before["a1"].retry_count = 1
    /\ asin_status["a1"].retry_count = 2

\* C16: a call of the transition creates no row: the asins with a row are the
\* same before and after, and an asin of the list that has no row is in the
\* failed list and not in the successful one.
C16_NoRowCreated ==
    lastUpdate.kind = "updated" =>
        /\ DOMAIN asin_status = DOMAIN lastUpdate.before
        /\ \A a \in Range(lastUpdate.asins) :
              a \notin DOMAIN lastUpdate.before
                  => /\ a \in Range(lastUpdate.failed_asins)
                     /\ a \notin Range(lastUpdate.successful_asins)

\* C16, the case reached: a list with an asin that has a row and one that has
\* none, on the bulk path; the first is transitioned, the second reported failed
C16_UnknownReportedFailed ==
    /\ lastUpdate.kind = "updated"
    /\ lastUpdate.raisedAt = "none"
    /\ lastUpdate.status \in valid_statuses
    /\ lastUpdate.successful_asins = <<"a1">>
    /\ lastUpdate.failed_asins = <<UnknownAsin>>
    /\ UnknownAsin \notin DOMAIN asin_status

\* C16, the same case on the row by row path
C16_UnknownFailedRowByRow ==
    /\ lastUpdate.kind = "updated"
    /\ lastUpdate.raisedAt = "select"
    /\ "a1" \in Range(lastUpdate.successful_asins)
    /\ UnknownAsin \in Range(lastUpdate.failed_asins)
    /\ UnknownAsin \notin DOMAIN asin_status

\* C17: a row in status running has a task_timestamp, and a transition to running
\* sets it to the moment of the transition: a transition to running without a
\* timestamp leaves the row out of running.
C17_RunningHasTimestamp ==
    \A a \in DOMAIN asin_status :
        /\ asin_status[a].status = "running" => asin_status[a].task_timestamp # Null
        /\ TransitionedTo(a, "running") => asin_status[a].task_timestamp = now

-----------------------------------------------------------------------------
(* Properties of the selection *)

\* a selection has just returned its list
Selected == lastSelect.kind = "selected"

Returned(a) == Selected /\ a \in Range(lastSelect.asins)

\* the selection returned fewer asins than its limit: no eligible row is left out
BelowLimit == Selected /\ Len(lastSelect.asins) < lastSelect.limit

Completed(a) == asin_status[a].status = "completed"

Failed(a) == asin_status[a].status = "failed"

\* C18 as stated: a completed row is selected iff its task_timestamp is at most
\* the selection time - 1 day: never returned when less than 24 hours old,
\* returned (unless the limit leaves it out) when 24 hours old or more.
C18_CompletedAfterOneDay ==
    \A a \in DOMAIN asin_status :
        Completed(a) =>
            /\ Returned(a) => /\ asin_status[a].task_timestamp # Null
                              /\ asin_status[a].task_timestamp <= now - SecondsPerDay
            /\ ( /\ BelowLimit
                 /\ asin_status[a].task_timestamp # Null
                 /\ asin_status[a].task_timestamp <= now - SecondsPerDay ) => Returned(a)

\* C18: a completed row is selected iff it has a task_timestamp and that is at
\* most the last instant of the day before the selection: never returned when its
\* timestamp is of the day of the selection or missing, returned (unless the
\* limit leaves it out) when its timestamp is of an earlier day.
C18_CompletedBeforeToday ==
    \A a \in DOMAIN asin_status :
        Completed(a) =>
            /\ Returned(a) => /\ asin_status[a].task_timestamp # Null
                              /\ DateOf(asin_status[a].task_timestamp) < DateOf(now)
            /\ ( /\ BelowLimit
                 /\ asin_status[a].task_timestamp # Null
                 /\ DateOf(asin_status[a].task_timestamp) < DateOf(now) ) => Returned(a)

\* C18, the case reached: a completed row whose run started five minutes after
\* midnight is returned at the next midnight, less than 24 hours later
C18_ReturnedWithinOneDay ==
    /\ Completed("a1")
    /\ Returned("a1")
    /\ asin_status["a1"].task_timestamp = FiveMinutes
    /\ now = SecondsPerDay

\* C19 as stated, the part about later selections: once a row is failed with
\* retry_count at the limit or above, no later selection returns it. The only
\* write of retry_count is the increment of the transition to failed, so a row
\* has been failed with retry_count at the limit or above exactly if its
\* retry_count is at the limit or above now.
C19_NeverAgainAfterRetries ==
    \A a \in DOMAIN asin_status :
        asin_status[a].retry_count >= RetryLimit => ~Returned(a)

\* C19: a failed row is selected iff its retry_count is below 3, whatever its
\* task_timestamp: never returned while it is failed with retry_count 3 or more,
\* returned (unless the limit leaves it out) while it is failed with less.
C19_FailedBelowRetryLimit ==
    \A a \in DOMAIN asin_status :
        Failed(a) =>
            /\ Returned(a) => asin_status[a].retry_count < RetryLimit
            /\ (BelowLimit /\ asin_status[a].retry_count < RetryLimit) => Returned(a)

\* C19, the case reached: of two failed rows with the same fresh timestamp the
\* one with two failures is returned and the one with three is not
C19_TwoReturnedThreeNot ==
    /\ Failed("a1") /\ Failed("a2")
    /\ asin_status["a1"].retry_count = 2
    /\ asin_status["a2"].retry_count = RetryLimit
    /\ asin_status["a1"].task_timestamp = now
    /\ asin_status["a2"].task_timestamp = now
    /\ BelowLimit
    /\ Returned("a1")
    /\ ~Returned("a2")

\* C20: a selection returns at most limit asins, each of them once and eligible,
\* in ascending order of task_timestamp with the rows without timestamp last, and
\* no eligible row left out stands before a returned one in that order: none has
\* an older timestamp, none has a timestamp when a returned one has none.
C20_OldestFirstUpToLimit ==
    Selected =>
        LET asins == lastSelect.asins IN
        /\ Len(asins) <= lastSelect.limit
        /\ \A i, j \in DOMAIN asins : i # j => asins[i] # asins[j]
        /\ \A i \in DOMAIN asins :
              /\ asins[i] \in DOMAIN asin_status
              /\ Eligible(asin_status[asins[i]], now)
        /\ \A i, j \in DOMAIN asins :
              i < j => OrderedBefore(asin_status[asins[i]], asin_status[asins[j]])
        /\ \A a \in DOMAIN asin_status :
              (Eligible(asin_status[a], now) /\ a \notin Range(asins)) =>
                  /\ Len(asins) = lastSelect.limit
                  /\ \A i \in DOMAIN asins :
                        OrderedBefore(asin_status[asins[i]], asin_status[a])

\* C20, the case reached: two eligible rows and limit 1; the row with the older
\* timestamp is returned, the other is left out
C20_OlderOfTwo ==
    /\ Selected
    /\ lastSelect.limit = 1
    /\ lastSelect.asins = <<"a2">>
    /\ Eligible(asin_status["a1"], now)
    /\ asin_status["a1"].task_timestamp # Null
    /\ asin_status["a2"].task_timestamp # Null
    /\ asin_status["a2"].task_timestamp < asin_status["a1"].task_timestamp

-----------------------------------------------------------------------------
(* Properties of the dispatch *)

\* a fetch task has just run with the outcome
Fetched(outcome) == lastUpdate.kind = "fetch" /\ lastUpdate.outcome = outcome

\* the fetch task that has just run reports the status update of the asin as made
UpdatedByFetch(a) ==
    /\ a \in Range(lastUpdate.asins)
    /\ a \notin Range(lastUpdate.failed_asins)

\* the row is in running with the timestamp of this moment
RunningSince(a, t) ==
    /\ a \in DOMAIN asin_status
    /\ asin_status[a].status = "running"
    /\ asin_status[a].task_timestamp = t

\* C21 as stated: after a fetch task whose submission the provider accepted, every
\* asin of the batch that has a row is in running with the time of that run as
\* its task_timestamp.
C21_BatchRunningAfterStart ==
    Fetched("started") =>
        \A a \in Range(lastUpdate.asins) \cap DOMAIN asin_status : RunningSince(a, now)

\* C21: after a fetch task whose submission the provider accepted, every asin of
\* the batch whose status update is not reported as failed is in running with the
\* time of that run as its task_timestamp, and the others are as they were; a
\* fetch task puts a row in running only when the provider has accepted the job:
\* after any other outcome no row is in running that was not before.
C21_UpdatedRunningAfterStart ==
    lastUpdate.kind = "fetch" =>
        \A a \in DOMAIN asin_status :
            /\ (Fetched("started") /\ UpdatedByFetch(a)) => RunningSince(a, now)
            /\ (Fetched("started") /\ ~UpdatedByFetch(a))
                  => asin_status[a] = lastUpdate.before[a]
            /\ (~Fetched("started") /\ asin_status[a].status = "running")
                  => /\ lastUpdate.before[a].status = "running"
                     /\ asin_status[a] = lastUpdate.before[a]
            /\ Fetched("started") => lastUpdate.asins \in runs

\* C21, the case reached: a row that was failed once is put in running by a
\* started run, a day after its last run
C21_FailedRowRunning ==
    /\ Fetched("started")
    /\ UpdatedByFetch("a1")
    /\ lastUpdate.before["a1"].status = "failed"
    /\ RunningSince("a1", SecondsPerDay)

\* C22 as stated: after a dispatch whose submission failed, every asin of the
\* batch (whose status update is not reported as failed) is failed with a
\* retry_count exactly one higher than when the scheduler dispatched the batch,
\* also when the fetch task is run again.
C22_OneIncrementPerDispatch ==
    (lastUpdate.kind = "fetch" /\ ~Fetched("started")) =>
        \A a \in DOMAIN asin_status :
            UpdatedByFetch(a) =>
                /\ asin_status[a].status = "failed"
                /\ asin_status[a].retry_count = lastUpdate.dispatched[a].retry_count + 1

\* C22, each run of the task: one increment for every run of the fetch task that
\* does not start a provider run
C22_OneIncrementPerRun ==
    (lastUpdate.kind = "fetch" /\ ~Fetched("started")) =>
        \A a \in DOMAIN asin_status :
            UpdatedByFetch(a) =>
                /\ asin_status[a].status = "failed"
                /\ asin_status[a].retry_count = lastUpdate.before[a].retry_count + 1

\* C22, the case reached: the second run of one fetch task has raised again and
\* the row counts two failures for one dispatch
C22_TwoForOneDispatch ==
    /\ Fetched("raised")
    /\ lastUpdate.retries = 1
    /\ UpdatedByFetch("a1")
    /\ lastUpdate.dispatched["a1"].retry_count = 0
    /\ asin_status["a1"].retry_count = 2

\* a scheduler run has just ended with this selection
Scheduled == lastSelect.kind \in {"selected", "raised"}

\* C23: a scheduler run whose selection is empty sends no fetch message, which is
\* the only way to a submission at the provider, and leaves every row of
\* asin_status, the queue of fetch messages and the provider runs as they were.
C23_EmptySelectionNoOp ==
    [][(Scheduled' /\ lastSelect'.asins = <<>>)
           => UNCHANGED <<asin_status, fetch_tasks, runs>>]_vars

\* C23, the case reached: a scheduler run selects nothing while the only row is
\* in running since less than five minutes and its provider run is under way
C23_NothingEligible ==
    /\ lastSelect.kind = "selected"
    /\ lastSelect.asins = <<>>
    /\ asin_status["a1"].status = "running"
    /\ runs # {}

-----------------------------------------------------------------------------
(* Properties of the webhook handler *)

\* the webhook just handled was of a run that did not succeed
NotSucceeded ==
    /\ lastWebhook.kind # "none"
    /\ \/ lastWebhook.event_type # "ACTOR.RUN.SUCCEEDED"
       \/ lastWebhook.status # "SUCCEEDED"

\* C24: the handling of a webhook whose event type is not ACTOR.RUN.SUCCEEDED or
\* whose resource status is not SUCCEEDED changes no row of asin_status, writes no
\* product, no snapshot and no alert record, and evaluates no alert.
C24_NotSucceededChangesNothing ==
    [][NotSucceeded' =>
           /\ UNCHANGED <<asin_status, products, product_snapshots, alert_records>>
           /\ lastWebhook'.evaluated = <<>>]_vars

\* C24, the case reached: the event says succeeded, the resource status does not;
\* the row stays in running, next to the products of an earlier run
C24_RunningAfterNotSucceeded ==
    /\ lastWebhook.event_type = "ACTOR.RUN.SUCCEEDED"
    /\ lastWebhook.status = "FAILED"
    /\ asin_status["a1"].status = "running"
    /\ products # {}

-----------------------------------------------------------------------------
(* Properties of the reclaim of rows left in running *)

\* the row is in running since a moment the clock of the model can leave more
\* than five minutes behind, and the scheduler has not sent a fetch message for it
\* since
RunningToReclaim(a) ==
    /\ asin_status[a].status = "running"
    /\ asin_status[a].task_timestamp # Null
    /\ asin_status[a].task_timestamp + FiveMinutes < LastInstant
    /\ \A task \in fetch_tasks : a \notin Range(task.asins)

SelectedByScheduler(a) == lastSelect.kind = "selected" /\ a \in Range(lastSelect.asins)

\* C25: a row in running for which no webhook of a succeeded run is handled (the
\* run did not succeed, or its webhook is lost) is selected by a later scheduler
\* run, once more than five minutes have passed since its task_timestamp: no row
\* stays in running for ever while the scheduler keeps running.
C25_RunningReclaimed ==
    \A a \in StoreAsins : RunningToReclaim(a) ~> SelectedByScheduler(a)

\* C25, the case reached: the scheduler selects a row that is in running since
\* 301 seconds, after the webhook of its run was lost
C25_StaleRunningSelected ==
    /\ SelectedByScheduler("a1")
    /\ asin_status["a1"].status = "running"
    /\ asin_status["a1"].task_timestamp = 0
    /\ now = FiveMinutes + 1
    /\ runs = {}

-----------------------------------------------------------------------------
(* Properties of the evaluation of a batch *)

\* the events the evaluation of the asin gives when nothing goes wrong in it
EventsAlone(a) ==
    check_alerts_for_asin(product_snapshots, a, ActiveRules, eval.stored, "none")

\* C26: a failure in the evaluation of one asin of a batch gives the empty event
\* list for that asin; every other asin of the batch is evaluated and gets the
\* events it gets when evaluated alone; the rows of asin_status are as they were
\* before the evaluation.
C26_FailureConfined ==
    eval.pc = "done" =>
        /\ DOMAIN eval.results = Range(BatchAsins)
        /\ \A a \in Range(BatchAsins) :
              /\ eval.faults[a] # "none" => eval.results[a] = <<>>
              /\ eval.faults[a] = "none" => eval.results[a] = EventsAlone(a)
        /\ asin_status = eval.statuses

\* C26, the case reached: the evaluation of the first asin raises, the second one
\* is evaluated and gets its price alert
C26_SecondStillEvaluated ==
    /\ eval.pc = "done"
    /\ eval.faults["a1"] = "raises"
    /\ EventsAlone("a1") # <<>>
    /\ eval.results["a1"] = <<>>
    /\ eval.results["a2"] # <<>>

-----------------------------------------------------------------------------
(* Properties of the webhook endpoint *)

Answered == lastWebhook.kind = "answered"

\* C27 as stated: every request on the webhook endpoint, whatever its body, is
\* answered with 200 and a processing summary.
C27_AlwaysSummary ==
    Answered =>
        /\ lastWebhook.response.status_code = 200
        /\ lastWebhook.response.body.status \in {"success", "error"}

\* C27, the handler alone: every body the endpoint could decode is answered with
\* 200 and a summary, with status error when the handling raised
C27_SummaryWhenDecoded ==
    (Answered /\ lastWebhook.request.utf8) =>
        /\ lastWebhook.response.status_code = 200
        /\ lastWebhook.response.body.status \in {"success", "error"}

\* C27, the case reached: a body that is not UTF-8 is answered with 500
C27_NotUtf8Answered500 ==
    /\ Answered
    /\ ~lastWebhook.request.utf8
    /\ lastWebhook.response.status_code = 500

-----------------------------------------------------------------------------
(* Properties of a submission whose task could not be enqueued *)

\* the submission created a job and send_task raised
EnqueueFailed == lastSubmit.kind = "created" /\ lastSubmit.warning

\* C28: when enqueueing the generation task fails after the job was created, the
\* job is kept with status pending and submit answers its job id with status
\* pending, existing = FALSE and a warning; no task for the job is in the queue.
C28_EnqueueFailureKeepsPendingJob ==
    EnqueueFailed =>
        /\ lastSubmit.job_id \in DOMAIN report_jobs
        /\ report_jobs[lastSubmit.job_id].status = "pending"
        /\ report_jobs[lastSubmit.job_id].parameters_hash = lastSubmit.hash
        /\ lastSubmit.status = "pending"
        /\ ~lastSubmit.existing
        /\ \A k \in DOMAIN report_tasks : report_tasks[k].job_id # lastSubmit.job_id

\* C28, the case reached: the second job of the store was created, its task was
\* not enqueued, and the task of the first job is in the queue
C28_SecondJobNotEnqueued ==
    /\ EnqueueFailed
    /\ lastSubmit.job_id = 2
    /\ report_jobs[2].status = "pending"
    /\ Len(report_tasks) = 1

-----------------------------------------------------------------------------
(* Properties of the report result and its download *)

Downloaded == lastSubmit.kind = "download"

\* C29: the worker stores the result before it marks the job completed: every job
\* with status completed has a result stored for its id, and a download of a
\* completed job is never answered with "not found".
C29_CompletedHasResult ==
    /\ \A j \in DOMAIN report_jobs :
           report_jobs[j].status = "completed" => j \in report_results
    /\ (Downloaded /\ lastSubmit.job_status = "completed") =>
           lastSubmit.status_code # 404

\* C29, the case reached: a completed job was downloaded with its content
C29_CompletedDownloaded ==
    /\ Downloaded
    /\ lastSubmit.job_status = "completed"
    /\ report_jobs[lastSubmit.job_id].status = "completed"
    /\ lastSubmit.job_id \in report_results
    /\ lastSubmit.content

\* C30 as stated: the download answers with the content if and only if the job is
\* completed, 202 without content for a pending or running job, 404 for an unknown
\* job id, and never with content for a pending, running or failed job.
C30_ContentIffCompleted ==
    Downloaded =>
        /\ (lastSubmit.status_code = 200 /\ lastSubmit.content)
               <=> lastSubmit.job_status = "completed"
        /\ lastSubmit.job_status \in {"pending", "running"} =>
               lastSubmit.status_code = 202 /\ ~lastSubmit.content
        /\ lastSubmit.job_status = "unknown" => lastSubmit.status_code = 404
        /\ lastSubmit.job_status \in {"pending", "running", "failed"} =>
               ~lastSubmit.content

\* C30, amended: content only for a completed job, and for every completed job
\* whose reads succeed; when the reads succeed 202 without content for a pending or
\* running job, 404 for an unknown id and 500 for a failed job; a read that raises
\* is answered 500 without content.
C30_ContentIffCompletedAndRead ==
    Downloaded =>
        /\ (lastSubmit.status_code = 200) <=> lastSubmit.content
        /\ lastSubmit.content =>
               /\ lastSubmit.job_status = "completed"
               /\ lastSubmit.job_id \in report_results
        /\ ~lastSubmit.reads_raised =>
               /\ lastSubmit.job_status = "completed" => lastSubmit.content
               /\ lastSubmit.job_status \in {"pending", "running"} =>
                      lastSubmit.status_code = 202
               /\ lastSubmit.job_status = "unknown" => lastSubmit.status_code = 404
               /\ lastSubmit.job_status = "failed" => lastSubmit.status_code = 500
        /\ lastSubmit.job_status \in {"pending", "running", "failed"} =>
               ~lastSubmit.content

\* C30, the case reached: a job that is running again, with the result of its
\* first run stored, is answered 202 without content
C30_RunningWithResultNoContent ==
    /\ Downloaded
    /\ lastSubmit.job_status = "running"
    /\ lastSubmit.job_id \in report_results
    /\ lastSubmit.status_code = 202
    /\ ~lastSubmit.content

-----------------------------------------------------------------------------
(* Properties of the validation of a submission *)

\* the request lacks a primary identifier, or has an empty comparison list, or has
\* more than 10 comparison identifiers
LacksParameters(request) ==
    \/ Get(request, "main_asin", "") = ""
    \/ Get(request, "competitor_asins", <<>>) = <<>>
    \/ Len(Get(request, "competitor_asins", <<>>)) > 10

\* C31: a request without a primary identifier, with an empty comparison list or
\* with more than 10 comparison identifiers is rejected: no call that got past the
\* validation has such parameters, and a rejected request is answered with an
\* error and leaves the jobs and the task queue as they were.
C31_InvalidRejected ==
    [][/\ lastSubmit'.kind \in {"created", "existing", "error"} =>
             ~LacksParameters(lastSubmit'.hash)
       /\ lastSubmit'.kind \in {"rejected", "invalid"} =>
             /\ lastSubmit'.status = "failed"
             /\ report_jobs' = report_jobs
             /\ report_tasks' = report_tasks]_vars

\* C31, the case reached: a request with 11 comparison identifiers was rejected
\* while a job and its task exist
C31_ElevenRejected ==
    /\ lastSubmit.kind = "rejected"
    /\ Get(lastSubmit.hash, "main_asin", "") = "B01LP0U5X0"
    /\ Len(Get(lastSubmit.hash, "competitor_asins", <<>>)) = 11
    /\ Len(report_jobs) = 1
    /\ Len(report_tasks) = 1

-----------------------------------------------------------------------------
(* Properties of the terminal statuses of a report job *)

Terminal(status) == status \in {"completed", "failed"}

\* C32 as stated: completed and failed are terminal: no step changes the status of
\* a job that is completed or failed.
C32_TerminalStatusKept ==
    [][\A j \in DOMAIN report_jobs :
           Terminal(report_jobs[j].status) =>
               report_jobs'[j].status = report_jobs[j].status]_vars

\* C32, the case reached: a completed job whose task is in the queue again
C32_CompletedRedelivered ==
    \E k \in DOMAIN report_tasks :
        /\ report_tasks[k].pc = "queued"
        /\ report_tasks[k].job_id \in DOMAIN report_jobs
        /\ report_jobs[report_tasks[k].job_id].status = "completed"

-----------------------------------------------------------------------------
(* Properties of the parameter hash *)

\* the keys of an object as written
KeysOf(members) == {members[i][1] : i \in DOMAIN members}

\* equality of two values as Python compares them: objects by their keys and the
\* values under them, lists by their elements in order
RECURSIVE SameContent(_, _)
SameContent(x, y) ==
    IF x.t # y.t THEN FALSE
    ELSE IF x.t # "obj" THEN x.v = y.v
    ELSE /\ KeysOf(x.v) = KeysOf(y.v)
         /\ \A i \in DOMAIN x.v, j \in DOMAIN y.v :
                x.v[i][1] = y.v[j][1] => SameContent(x.v[i][2], y.v[j][2])

\* C33: the hash is independent of key order and depends only on content: two
\* parameter objects with the same fields and values, in any key order at any
\* level, have the same hash, and two objects that differ in a value, the order
\* of a list included, have different hashes.
C33_HashOfContent ==
    eval.pc = "done" =>
        (SameContent(eval.p, eval.q) <=> eval.hash_p = eval.hash_q)

\* C33, the case reached: the same content written in another key order at both
\* levels, with the same hash
C33_OtherOrderSameHash ==
    /\ eval.pc = "done"
    /\ eval.p.v[1][1] = "competitor_asins"
    /\ eval.p.v[3][1] = "filters"
    /\ eval.q.v[1][1] = "filters"
    /\ Len(eval.p.v[3][2].v) = 2
    /\ eval.p.v[3][2].v[1][1] # eval.q.v[1][2].v[1][1]
    /\ SameContent(eval.p, eval.q)
    /\ eval.hash_p = eval.hash_q

-----------------------------------------------------------------------------
(* Properties of the snapshot history *)

RowsOf(asin, date) ==
    {r \in product_snapshots : r.asin = asin /\ r.snapshot_date = date}

OneRowPerKey ==
    \A r, q \in product_snapshots : SameKey(r, q) => r = q

\* C34 as stated: the history holds at most one observation for an identifier and
\* a date, whatever is ingested.
C34_OneObservationPerDay == OneRowPerKey

\* C34, the case reached: the dataset of a1 was delivered a second time on the day
\* and the history holds two observations of a1 for that day
C34_TwoObservationsSameDay ==
    /\ lastWebhook.kind = "ingested"
    /\ lastWebhook.asins = <<"a1">>
    /\ lastWebhook.snapshots_success
    /\ Cardinality(RowsOf("a1", DateOf(now))) = 2

\* C34, the part that holds: no step modifies or deletes a row of the history, and the history
\* holds at most one row for an identifier and a date when the storage enforces it.
C34_AppendOnlyUniqueByStorage ==
    [][/\ product_snapshots \subseteq product_snapshots'
       /\ eval.unique => (\A r, q \in product_snapshots' : SameKey(r, q) => r = q)]_vars

\* C34 on a storage that enforces uniqueness: the second
\* delivery of the day was rejected and the row of the first is there
C34_SecondInsertRejected ==
    /\ eval.unique
    /\ lastWebhook.kind = "ingested"
    /\ lastWebhook.asins = <<"a1">>
    /\ ~lastWebhook.writes_raised
    /\ ~lastWebhook.snapshots_success
    /\ Cardinality(RowsOf("a1", DateOf(now))) = 1

\* the last step was a delivery of the dataset of a1 on a day that has a row of a1
\* from an earlier delivery, a1 being completed
SecondDelivery ==
    /\ lastWebhook.kind = "ingested"
    /\ lastWebhook.asins = <<"a1">>
    /\ lastWebhook.products_success
    /\ ~lastWebhook.writes_raised
    /\ lastWebhook.before["a1"].status = "completed"
    /\ \/ Cardinality(RowsOf("a1", DateOf(now))) >= 2
       \/ (RowsOf("a1", DateOf(now)) # {} /\ ~lastWebhook.snapshots_success)

\* C35 as stated: after the second delivery of a success webhook every identifier
\* of the dataset is still completed with the retry count it had, whether the
\* storage rejects the second observation or accepts it.
C35_SecondDeliverySameState ==
    SecondDelivery =>
        /\ asin_status["a1"].status = "completed"
        /\ asin_status["a1"].retry_count = lastWebhook.before["a1"].retry_count

\* C35, when the storage accepts the second observation: the identifier state is
\* as it was
C35_SameStateWhenAccepted ==
    (SecondDelivery /\ lastWebhook.snapshots_success) =>
        /\ asin_status["a1"].status = "completed"
        /\ asin_status["a1"].retry_count = lastWebhook.before["a1"].retry_count

\* C35, the case reached: the storage rejected the second observation and the
\* identifier is failed with one more retry
C35_RejectedSecondFails ==
    /\ SecondDelivery
    /\ eval.unique
    /\ asin_status["a1"].status = "failed"
    /\ asin_status["a1"].retry_count = lastWebhook.before["a1"].retry_count + 1

-----------------------------------------------------------------------------
(* Properties of the fetch task and the webhook handler side by side *)

\* C36 as stated: an identifier that the webhook of a run has marked completed is
\* never put back into running by the dispatch that started the run.
C36_CompletedNotPutBack ==
    [][(/\ eval.fetch.pc = "read"
        /\ eval.fetch.fresh
        /\ eval.marked = "completed"
        /\ asin_status["a1"].status = "completed")
       => asin_status'["a1"].status # "running"]_vars

\* C36, the case reached: the webhook of the run marked a1 completed, the fetch
\* task that started the run has ended and a1 is running with no run left
C36_PutBackIntoRunning ==
    /\ eval.fetch.pc = "idle"
    /\ eval.fetch.fresh
    /\ eval.marked = "completed"
    /\ eval.hook.pc = "idle"
    /\ runs = {}
    /\ asin_status["a1"].status = "running"

\* C37 as stated: when two transitions to failed of one identifier ran side by
\* side, its retry count after both is 2 higher than before.
C37_NoLostIncrement ==
    eval.pair.left = 0 => asin_status["a1"].retry_count = eval.pair.base + 2

\* C37, the case reached: both transitions to failed have written and the retry
\* count is 1 higher than before
C37_OneIncrementLost ==
    /\ eval.pair.left = 0
    /\ asin_status["a1"].status = "failed"
    /\ asin_status["a1"].retry_count = eval.pair.base + 1

-----------------------------------------------------------------------------
(* Properties of the worker that keeps running *)

\* C38 as stated: every job whose generation task was enqueued eventually reaches
\* completed or failed, the worker running on.
C38_EnqueuedJobEnds ==
    \A k \in 1..MaxWorkerJobs :
        (k \in DOMAIN report_tasks)
            ~> (k \in DOMAIN report_tasks /\ Terminal(JobOf(k).status))

\* C38, the case reached: the task has ended in a failure of the runtime, the
\* callback has run and the job is running
C38_TaskEndedJobRunning ==
    \E k \in DOMAIN report_tasks :
        /\ report_tasks[k].pc = "done"
        /\ report_tasks[k].exc \in {"AttributeError", "TimeLimitExceeded"}
        /\ JobOf(k).status = "running"

-----------------------------------------------------------------------------
(* Properties of the result of a transition *)

\* how often the asin stands in the list
Times(a, list) == Cardinality({i \in DOMAIN list : list[i] = a})

\* the row of the asin holds the status of the last call
WrittenWith(a, status) == a \in DOMAIN asin_status /\ asin_status[a].status = status

\* C39 as stated: every asin of the list of a call stands in exactly one of the
\* two lists of the result and exactly once, an invalid status puts all of them in
\* the failed list and leaves the store as it was, and an asin stands in the
\* successful list only if its row was written with the new status.
C39_ResultPartitionsInput ==
    lastUpdate.kind = "updated" =>
        /\ \A a \in Range(lastUpdate.asins) :
               Times(a, lastUpdate.successful_asins)
                   + Times(a, lastUpdate.failed_asins) = 1
        /\ Range(lastUpdate.successful_asins) \cup Range(lastUpdate.failed_asins)
               = Range(lastUpdate.asins)
        /\ lastUpdate.status \notin valid_statuses =>
               /\ lastUpdate.failed_asins = lastUpdate.asins
               /\ asin_status = lastUpdate.before
        /\ \A a \in Range(lastUpdate.successful_asins) :
               WrittenWith(a, lastUpdate.status)

\* C39, the part that holds: every asin of the list stands in one of the two lists
\* and in no case in both, and the successful ones were written.
C39_ResultCoversInput ==
    lastUpdate.kind = "updated" =>
        /\ \A a \in Range(lastUpdate.asins) :
               (a \in Range(lastUpdate.successful_asins))
                   # (a \in Range(lastUpdate.failed_asins))
        /\ \A a \in Range(lastUpdate.successful_asins) :
               WrittenWith(a, lastUpdate.status)

\* C39, the case reached: the upsert raised, the rows were updated one by one and
\* the asin without a row stands twice in the failed list
C39_MissingFailedTwice ==
    /\ lastUpdate.kind = "updated"
    /\ lastUpdate.raisedAt = "upsert"
    /\ Times(UnknownAsin, lastUpdate.asins) = 1
    /\ Times(UnknownAsin, lastUpdate.failed_asins) = 2

-----------------------------------------------------------------------------
(* Properties of the success webhooks without a dataset *)

\* the resource of the last webhook gave no dataset id, or the fetch of its dataset
\* raised, or the dataset was empty
NoDataset(select) ==
    /\ select.kind = "resource"
    /\ (~select.dataset_id \/ select.fetch_raised \/ select.asins = <<>>)

\* C40: a success webhook that carries no dataset id, whose dataset fetch fails or
\* whose dataset is empty changes no identifier row, writes no catalog row and no
\* observation and evaluates no alert; and a row that is running is changed by a
\* webhook with a dataset or by a fetch task only.
C40_NoDatasetChangesNothing ==
    [][/\ NoDataset(lastSelect') =>
              /\ asin_status' = asin_status
              /\ products' = products
              /\ product_snapshots' = product_snapshots
              /\ alert_records' = alert_records
              /\ lastWebhook'.evaluated = <<>>
       /\ \A a \in DOMAIN asin_status :
              (asin_status[a].status = "running" /\ asin_status'[a] # asin_status[a])
                  => \/ lastUpdate'.kind = "fetch"
                     \/ lastWebhook'.kind = "ingested"]_vars

\* C40, the case reached: the fetch of the dataset of the run of a1 raised, the
\* run is over and a1 is running as the fetch task left it
C40_FetchFailedStillRunning ==
    /\ lastSelect.kind = "resource"
    /\ lastSelect.dataset_id
    /\ lastSelect.fetch_raised
    /\ lastSelect.asins = <<"a1">>
    /\ lastWebhook.kind = "dropped"
    /\ runs = {}
    /\ asin_status["a1"].status = "running"
    /\ asin_status["a1"].task_timestamp # Null

====
